---- MODULE Spec2Model ----
(***************************************************************************)
(* reporg: search git repositories with ripgrep and write one TSV record   *)
(* per match.  The module models the repository resolver                   *)
(* (internal/git/repo.go), the GitHub remote parser, the match stream      *)
(* parser (internal/search/ripgrep.go) and the orchestrator (run and       *)
(* getRepoContext of package main).                                        *)
(*                                                                         *)
(* Strings are sequences of one-character strings, so that cleaning,       *)
(* trimming, matching and formatting are computed on the characters.       *)
(***************************************************************************)
EXTENDS Integers, Sequences, FiniteSets, TLC

VARIABLES
    pc,          \* position of the running operation
    paths,       \* run: the path arguments (args[1:])
    opts,        \* run: the search options taken from the flags
    sink,         \* the output destination: standard output or the --output file
    idx,         \* DeduplicateRepoPaths: position of the range loop (1-based)
    seen,        \* DeduplicateRepoPaths: the seen map
    unique,      \* DeduplicateRepoPaths: the unique slice
    gitCalls,    \* the paths ValidateRepoRoot has been called with, in order
    uniqueRepos, \* run: the list returned by DeduplicateRepoPaths
    runErr,      \* run: the returned error
    repoIdx,           \* run: position of the loop over uniqueRepos (1-based)
    repoCtx,     \* run: the context of the current root
    ctxLog,      \* the calls of getRepoContext: root, query outcomes, result
    procs,       \* the search processes started, in order, with their output so far
    pipe,        \* the lines written by the current process and not yet scanned
    vpath,       \* ValidateRepoRoot alone: the path argument
    vresult,     \* ValidateRepoRoot alone: the returned error
    urlParts,    \* ParseGitHubURL alone: the owner and name the URLs are built from
    parsed,      \* ParseGitHubURL alone: the results for the shapes parsed so far
    conv,        \* one event or one result alone: the input and what it is converted to
    call         \* the command line alone: the flags, the SearchOptions, the arguments of rg

vars == <<pc, paths, opts, sink, idx, seen, unique, gitCalls, uniqueRepos, runErr,
          repoIdx, repoCtx, ctxLog, procs, pipe, vpath, vresult, urlParts, parsed, conv, call>>

runVars == <<paths, opts, sink, idx, seen, unique, gitCalls, uniqueRepos, runErr,
             repoIdx, repoCtx, ctxLog, procs, pipe>>

----------------------------------------------------------------------------
(* Bounds *)

MaxPaths == 3     \* path arguments of a run
MaxEvents == 2    \* lines written by the search processes of a run
MaxPipe == 2      \* lines waiting in the pipe
MaxSegs == 3      \* path elements of an argument of ValidateRepoRoot alone
MaxNameLen == 5   \* characters of a repository name given to ParseGitHubURL alone
MaxTextLen == 4   \* characters of a line text converted alone
MaxGlobs == 2     \* --glob flags of a command line

----------------------------------------------------------------------------
(* Strings *)

SL == <<"/">>
NL == <<"\n">>

IsSpace(c) == c \in {" ", "\t", "\n", "\r"}

RECURSIVE TrimLeft(_)
TrimLeft(s) ==
    IF s # <<>> /\ IsSpace(Head(s)) THEN TrimLeft(Tail(s)) ELSE s

RECURSIVE TrimRightSpace(_)
TrimRightSpace(s) ==
    IF s # <<>> /\ IsSpace(s[Len(s)])
    THEN TrimRightSpace(SubSeq(s, 1, Len(s) - 1))
    ELSE s

\* strings.TrimSpace
TrimSpace(s) == TrimRightSpace(TrimLeft(s))

HasPrefix(s, p) == Len(s) >= Len(p) /\ SubSeq(s, 1, Len(p)) = p

HasSuffix(s, p) == Len(s) >= Len(p) /\ SubSeq(s, Len(s) - Len(p) + 1, Len(s)) = p

\* the elements of s between the separators c (strings.Split)
RECURSIVE SplitAcc(_, _, _)
SplitAcc(s, c, cur) ==
    IF s = <<>> THEN <<cur>>
    ELSE IF Head(s) = c THEN <<cur>> \o SplitAcc(Tail(s), c, <<>>)
    ELSE SplitAcc(Tail(s), c, Append(cur, Head(s)))

Split(s, c) == SplitAcc(s, c, <<>>)

\* the elements joined by the separator sep (strings.Join)
RECURSIVE JoinWith(_, _)
JoinWith(elems, sep) ==
    IF elems = <<>> THEN <<>>
    ELSE IF Len(elems) = 1 THEN elems[1]
    ELSE elems[1] \o sep \o JoinWith(Tail(elems), sep)

\* all sequences over S of length 0..n
RECURSIVE SeqsUpTo(_, _)
SeqsUpTo(S, n) ==
    IF n = 0 THEN {<<>>}
    ELSE LET shorter == SeqsUpTo(S, n - 1)
         IN shorter \cup {Append(q, x) : q \in {r \in shorter : Len(r) = n - 1}, x \in S}

----------------------------------------------------------------------------
(* Paths: path/filepath on a slash-separated platform *)

IsAbs(p) == p # <<>> /\ Head(p) = "/"

\* the element stack of filepath.Clean: "" and "." are dropped, ".." removes
\* the preceding element, is dropped at the root and kept on a relative path
RECURSIVE CleanElems(_, _, _)
CleanElems(elems, rooted, out) ==
    IF elems = <<>> THEN out
    ELSE LET e == Head(elems)
             rest == Tail(elems)
         IN IF e = <<>> \/ e = <<".">> THEN CleanElems(rest, rooted, out)
            ELSE IF e = <<".", ".">>
                 THEN IF out # <<>> /\ out[Len(out)] # <<".", ".">>
                      THEN CleanElems(rest, rooted, SubSeq(out, 1, Len(out) - 1))
                      ELSE IF rooted THEN CleanElems(rest, rooted, out)
                      ELSE CleanElems(rest, rooted, Append(out, e))
                 ELSE CleanElems(rest, rooted, Append(out, e))

\* filepath.Clean: purely lexical, no file system access
Clean(p) ==
    IF p = <<>> THEN <<".">>
    ELSE LET out == JoinWith(CleanElems(Split(p, "/"), IsAbs(p), <<>>), SL)
         IN IF IsAbs(p) THEN SL \o out
            ELSE IF out = <<>> THEN <<".">> ELSE out

\* the working directory of the process
Cwd == <<"/", "w">>

\* filepath.Abs: Clean of the path, joined to the working directory when relative
Abs(p) == IF IsAbs(p) THEN Clean(p) ELSE Clean(Cwd \o SL \o p)

----------------------------------------------------------------------------
(* The file system and git, as the resolver's queries see them *)

\* physical directories, as element lists from the root
Dirs ==
    { <<>>, <<<<"w">>>>,
      <<<<"w">>, <<"a">>>>, <<<<"w">>, <<"a">>, <<"s">>>>,
      <<<<"w">>, <<"a">>, <<"s">>, <<"t">>>>,
      <<<<"w">>, <<"b">>>>,
      <<<<"w">>, <<"x">>>> }

\* top-level directories of git work trees
RepoRoots == { <<<<"w">>, <<"a">>>>, <<<<"w">>, <<"b">>>> }

\* symbolic links: /w/l -> /w/a and /w/a/k -> /w/a/s/t
IsLink(d) == d \in { <<<<"w">>, <<"l">>>>, <<<<"w">>, <<"a">>, <<"k">>>> }

LinkTarget(d) ==
    IF d = <<<<"w">>, <<"l">>>> THEN <<<<"w">>, <<"a">>>>
    ELSE <<<<"w">>, <<"a">>, <<"s">>, <<"t">>>>

NoDir == <<<<"?">>>>

\* chdir as the kernel does it: element by element, following links,
\* ".." taken from the directory actually reached
RECURSIVE Walk(_, _)
Walk(cur, elems) ==
    IF cur = NoDir THEN NoDir
    ELSE IF elems = <<>> THEN cur
    ELSE LET e == Head(elems)
             rest == Tail(elems)
         IN IF e = <<>> \/ e = <<".">> THEN Walk(cur, rest)
            ELSE IF e = <<".", ".">>
                 THEN Walk(IF cur = <<>> THEN cur ELSE SubSeq(cur, 1, Len(cur) - 1), rest)
                 ELSE LET nxt == Append(cur, e)
                      IN IF IsLink(nxt) THEN Walk(LinkTarget(nxt), rest)
                         ELSE IF nxt \in Dirs THEN Walk(nxt, rest)
                         ELSE NoDir

\* the directory a path argument denotes, NoDir when there is none
PhysDir(p) ==
    IF p = <<>> THEN NoDir
    ELSE Walk(IF IsAbs(p) THEN <<>> ELSE Split(Tail(Cwd), "/"), Split(p, "/"))

\* the work tree that contains directory d: its longest prefix in RepoRoots
RECURSIVE EnclosingRoot(_)
EnclosingRoot(d) ==
    IF d = NoDir THEN NoDir
    ELSE IF d \in RepoRoots THEN d
    ELSE IF d = <<>> THEN NoDir
    ELSE EnclosingRoot(SubSeq(d, 1, Len(d) - 1))

\* git -C <path> rev-parse --show-toplevel: exit status and standard output
GitShowToplevel(p) ==
    LET top == EnclosingRoot(PhysDir(p))
    IN IF top = NoDir THEN [ok |-> FALSE, out |-> <<>>]
       ELSE [ok |-> TRUE, out |-> SL \o JoinWith(top, SL) \o NL]

----------------------------------------------------------------------------
(* internal/git/repo.go *)

NoError == [kind |-> "nil", arg |-> <<>>]

Err(kind, arg) == [kind |-> kind, arg |-> arg]

\* ValidateRepoRoot(path): nil, or the error naming the path
ValidateRepoRoot(path) ==
    LET absPath == Abs(path)
        res == GitShowToplevel(path)
    IN IF ~res.ok THEN Err("not a git repository", path)
       ELSE LET repoRoot == TrimSpace(res.out)
                absRepoRoot == Abs(repoRoot)
            IN IF absPath # absRepoRoot
               THEN Err("path is not a repository root (subdirectory detected)", path)
               ELSE NoError

----------------------------------------------------------------------------
(* GitHub remote URLs (package git: ParseGitHubURL) *)

HttpsPrefix ==
    <<"h","t","t","p","s",":","/","/","g","i","t","h","u","b",".","c","o","m","/">>

SshPrefix ==
    <<"g","i","t","@","g","i","t","h","u","b",".","c","o","m",":">>

DotGit == <<".","g","i","t">>

NoSlash(s) == \A i \in 1..Len(s) : s[i] # "/"

\* the candidates when the pattern does not end in $
RepoGroupLensUnanchored(t) == {k \in 1..Len(t) : NoSlash(SubSeq(t, 1, k))}

\* the lengths k of the second group for which ([^/]+?)(?:\.git)?$ matches t
RepoGroupLens(t) ==
    {k \in 1..Len(t) :
        /\ NoSlash(SubSeq(t, 1, k))
        /\ \/ k = Len(t)
           \/ SubSeq(t, k + 1, Len(t)) = DotGit}

Min(S) == CHOOSE x \in S : \A y \in S : x <= y

Max(S) == CHOOSE x \in S : \A y \in S : x >= y

\* a greedy second group ([^/]+): the longest candidate
RepoGroupLenGreedy(t) == Max(RepoGroupLens(t))

\* the lazy second group ([^/]+?): the shortest candidate
RepoGroupLen(t) == Min(RepoGroupLens(t))

\* FindStringSubmatch of ^<prefix>([^/]+)/([^/]+?)(?:\.git)?$ : the first
\* group runs to the first slash, the second is the shortest that lets the
\* rest of the pattern reach the end of the text
MatchRemote(prefix, s) ==
    IF ~HasPrefix(s, prefix) THEN [ok |-> FALSE, g1 |-> <<>>, g2 |-> <<>>]
    ELSE LET t == SubSeq(s, Len(prefix) + 1, Len(s))
             slashes == {i \in 1..Len(t) : t[i] = "/"}
         IN IF slashes = {} \/ Min(slashes) = 1
            THEN [ok |-> FALSE, g1 |-> <<>>, g2 |-> <<>>]
            ELSE LET i == Min(slashes)
                     u == SubSeq(t, i + 1, Len(t))
                 IN IF RepoGroupLens(u) = {}
                    THEN [ok |-> FALSE, g1 |-> <<>>, g2 |-> <<>>]
                    ELSE [ok |-> TRUE, g1 |-> SubSeq(t, 1, i - 1),
                          g2 |-> SubSeq(u, 1, RepoGroupLen(u))]

httpsPattern(s) == MatchRemote(HttpsPrefix, s)

sshPattern(s) == MatchRemote(SshPrefix, s)

\* ParseGitHubURL(remoteURL): (owner, repo, err)
ParseGitHubURL(remoteURL) ==
    IF httpsPattern(remoteURL).ok
    THEN [owner |-> httpsPattern(remoteURL).g1, repo |-> httpsPattern(remoteURL).g2,
          err |-> NoError]
    ELSE IF sshPattern(remoteURL).ok
    THEN [owner |-> sshPattern(remoteURL).g1, repo |-> sshPattern(remoteURL).g2,
          err |-> NoError]
    ELSE [owner |-> <<>>, repo |-> <<>>, err |-> Err("not a valid GitHub URL", remoteURL)]

----------------------------------------------------------------------------
(* Formatting (package git: BuildGitHubFileURL; internal/output) *)

Digit(d) == <<"0","1","2","3","4","5","6","7","8","9">>[d + 1]

\* %d of a non-negative integer
RECURSIVE Itoa(_)
Itoa(n) == IF n < 10 THEN <<Digit(n)>> ELSE Itoa(n \div 10) \o <<Digit(n % 10)>>

\* filepath.ToSlash: the separator already is the slash
ToSlash(p) == p

BlobPrefix == <<"h","t","t","p","s",":","/","/","g","i","t","h","u","b",".","c","o","m","/">>

\* a path whose spaces are percent-encoded
RECURSIVE PathEscape(_)
PathEscape(p) ==
    IF p = <<>> THEN <<>>
    ELSE (IF Head(p) = " " THEN <<"%", "2", "0">> ELSE <<Head(p)>>) \o PathEscape(Tail(p))

\* a link whose path is percent-encoded
BuildGitHubFileURLEscaped(owner, repo, branch, relPath, lineNum) ==
    BlobPrefix \o owner \o SL \o repo \o <<"/","b","l","o","b","/">> \o branch
        \o SL \o PathEscape(ToSlash(relPath)) \o <<"#","L">> \o Itoa(lineNum)

\* BuildGitHubFileURL: https://github.com/{owner}/{repo}/blob/{branch}/{path}#L{line}
BuildGitHubFileURL(owner, repo, branch, relPath, lineNum) ==
    BlobPrefix \o owner \o SL \o repo \o <<"/","b","l","o","b","/">> \o branch
        \o SL \o ToSlash(relPath) \o <<"#","L">> \o Itoa(lineNum)

\* a replacement of the first occurrence only
ReplaceCharFirst(text, old) ==
    [i \in 1..Len(text) |->
        IF text[i] = old /\ \A j \in 1..(i - 1) : text[j] # old THEN " " ELSE text[i]]

\* strings.ReplaceAll(text, old, " ") for a one-character old
ReplaceChar(text, old) ==
    [i \in 1..Len(text) |-> IF text[i] = old THEN " " ELSE text[i]]

\* sanitizeLine: tabs, LF and CR become spaces, then TrimSpace
sanitizeLine(text) ==
    TrimSpace(ReplaceChar(ReplaceChar(ReplaceChar(text, "\t"), "\n"), "\r"))

\* the line of one record: four fields, tab separated, newline terminated
FormatRecord(result) ==
    result.Repository \o <<"\t">> \o result.LocalPath \o <<"\t">>
        \o sanitizeLine(result.MatchedLine) \o <<"\t">> \o result.GitHubURL \o NL

----------------------------------------------------------------------------
(* Repository context (package main: getRepoContext; package git queries) *)

Main == <<"m","a","i","n">>

\* GetGitHubRemoteURL, given the outcome of git remote get-url origin
GetGitHubRemoteURL(res) ==
    IF ~res.ok THEN [url |-> <<>>, err |-> Err("failed to get remote URL", <<>>)]
    ELSE [url |-> TrimSpace(res.out), err |-> NoError]

\* GetCurrentBranch, given the outcome of git branch --show-current
GetCurrentBranch(res) ==
    IF ~res.ok THEN [branch |-> <<>>, err |-> Err("failed to get current branch", <<>>)]
    ELSE [branch |-> TrimSpace(res.out), err |-> NoError]

\* a fallback that only looks at the error of the query
BranchOrMainErrOnly(b) == IF b.err # NoError THEN Main ELSE b.branch

\* the branch of the links: "main" when the query failed or gave no name
BranchOrMain(b) == IF b.err # NoError \/ b.branch = <<>> THEN Main ELSE b.branch

NoCtx == [Root |-> <<>>, Owner |-> <<>>, Repo |-> <<>>, Branch |-> <<>>]

NotParsed == [owner |-> <<>>, repo |-> <<>>, err |-> Err("not called", <<>>)]

\* getRepoContext(repoRoot), given the outcomes of the two git queries: the
\* context and the error, and what ParseGitHubURL returned (gh)
getRepoContext(repoRoot, remoteRes, branchRes) ==
    LET remote == GetGitHubRemoteURL(remoteRes)
        gh == ParseGitHubURL(remote.url)
    IN IF remote.err # NoError
       THEN [ctx |-> NoCtx, err |-> Err("failed to get remote URL", <<>>), gh |-> NotParsed]
       ELSE IF gh.err # NoError
       THEN [ctx |-> NoCtx, err |-> Err("not a GitHub repository", remote.url), gh |-> gh]
       ELSE [ctx |-> [Root |-> repoRoot, Owner |-> gh.owner, Repo |-> gh.repo,
                      Branch |-> BranchOrMain(GetCurrentBranch(branchRes))],
             err |-> NoError, gh |-> gh]

----------------------------------------------------------------------------
(* Match stream parser (internal/search/ripgrep.go) *)

NonEmpty(elems) == SelectSeq(elems, LAMBDA e : e # <<>>)

RECURSIVE CommonLen(_, _)
CommonLen(a, b) ==
    IF a = <<>> \/ b = <<>> \/ Head(a) # Head(b) THEN 0
    ELSE 1 + CommonLen(Tail(a), Tail(b))

RECURSIVE DotDots(_)
DotDots(n) == IF n = 0 THEN <<>> ELSE <<<<".", ".">>>> \o DotDots(n - 1)

\* filepath.Rel(basepath, targpath): (path, ok)
Rel(basepath, targpath) ==
    LET base == Clean(basepath)
        targ == Clean(targpath)
    IN IF targ = base THEN [path |-> <<".">>, ok |-> TRUE]
       ELSE LET b == IF base = <<".">> THEN <<>> ELSE base
                be == NonEmpty(Split(b, "/"))
                te == NonEmpty(Split(targ, "/"))
                c == CommonLen(be, te)
            IN IF IsAbs(b) # IsAbs(targ) THEN [path |-> <<>>, ok |-> FALSE]
               ELSE IF c < Len(be) /\ be[c + 1] = <<".", ".">>
               THEN [path |-> <<>>, ok |-> FALSE]
               ELSE [path |-> JoinWith(DotDots(Len(be) - c) \o SubSeq(te, c + 1, Len(te)), SL),
                     ok |-> TRUE]

\* strings.TrimRight(s, "\r\n"): every trailing CR and LF is removed
RECURSIVE TrimRightCRLF(_)
TrimRightCRLF(s) ==
    IF s # <<>> /\ s[Len(s)] \in {"\r", "\n"}
    THEN TrimRightCRLF(SubSeq(s, 1, Len(s) - 1))
    ELSE s

Ellipsis == <<".", ".", ".">>

\* a truncation that also cuts a text of exactly the maximum length
TruncateInclusive(lineText, maxLineLength) ==
    IF maxLineLength > 0 /\ Len(lineText) >= maxLineLength
    THEN SubSeq(lineText, 1, maxLineLength) \o Ellipsis
    ELSE lineText

\* the truncation of SearchRepo: lengths are counted in bytes
Truncate(lineText, maxLineLength) ==
    IF maxLineLength > 0 /\ Len(lineText) > maxLineLength
    THEN SubSeq(lineText, 1, maxLineLength) \o Ellipsis
    ELSE lineText

\* buf := make([]byte, 0, 64*1024): the first size of the scanner's buffer
startBufSize == 64 * 1024

\* the limit of a scanner whose Buffer method is not called
defaultMaxTokenSize == 64 * 1024

\* scanner.Buffer(buf, 10*1024*1024): the largest size of the buffer
maxTokenSize == 10 * 1024 * 1024

\* bufio.Scanner: while the buffer is full and holds no newline it is
\* doubled, up to the largest size; a full buffer of the largest size is
\* ErrTooLong.  nbytes counts the line with its newline.
RECURSIVE BufferFits(_, _)
BufferFits(bufLen, nbytes) ==
    IF nbytes <= bufLen THEN TRUE
    ELSE IF bufLen >= maxTokenSize THEN FALSE
    ELSE BufferFits(Min({bufLen * 2, maxTokenSize}), nbytes)

TokenFits(nbytes) == BufferFits(startBufSize, nbytes)

\* one line of the process output, as the two json.Unmarshal calls see it:
\* lines.text is present or not, and lines.bytes is absent; a line over
\* the limit of the scanner has one byte too many, another line 120 bytes
EventLine(json, type, dataOk, hasPath, path, lineNumber, hasText, text, oversize) ==
    [json |-> json, type |-> type, dataOk |-> dataOk, hasPath |-> hasPath,
     path |-> path, lineNumber |-> lineNumber, hasText |-> hasText,
     text |-> text, hasBytes |-> FALSE, bytes |-> <<>>, oversize |-> oversize,
     nbytes |-> IF oversize THEN 10 * 1024 * 1024 + 1 ELSE 120]

\* a match event of root/f whose line, with its newline, has nbytes bytes
LongMatch(root, lineNumber, nbytes) ==
    [EventLine(TRUE, "match", TRUE, TRUE, root \o <<"/","f">>, lineNumber, TRUE, <<"a","\n">>,
               nbytes > 10 * 1024 * 1024)
        EXCEPT !.nbytes = nbytes]

\* a match event whose lines object carries a bytes field
BytesEvent(path, lineNumber, hasText, text, bytes) ==
    [EventLine(TRUE, "match", TRUE, TRUE, path, lineNumber, hasText, text, FALSE)
        EXCEPT !.hasBytes = TRUE, !.bytes = bytes]

\* the alphabet of base64.StdEncoding
B64Alphabet ==
    <<"A","B","C","D","E","F","G","H","I","J","K","L","M","N","O","P",
       "Q","R","S","T","U","V","W","X","Y","Z","a","b","c","d","e","f",
       "g","h","i","j","k","l","m","n","o","p","q","r","s","t","u","v",
       "w","x","y","z","0","1","2","3","4","5","6","7","8","9","+","/">>

B64Value(c) == (CHOOSE i \in 1..64 : B64Alphabet[i] = c) - 1

\* the characters of the bytes that occur in the texts of the model
ByteChars ==
    (9 :> "\t") @@ (10 :> "\n") @@ (13 :> "\r") @@ (32 :> " ") @@ (46 :> ".")
        @@ (97 :> "a") @@ (98 :> "b") @@ (255 :> "xFF")

\* string(decoded): every byte is taken as it is
ByteChar(b) == IF b \in DOMAIN ByteChars THEN ByteChars[b] ELSE "x??"

\* the bytes of one group of four characters; "=" pads the last group
DecodeQuad(q) ==
    LET v1 == B64Value(q[1])
        v2 == B64Value(q[2])
        b1 == v1 * 4 + v2 \div 16
    IN IF q[3] = "=" THEN <<b1>>
       ELSE LET v3 == B64Value(q[3])
                b2 == (v2 % 16) * 16 + v3 \div 4
            IN IF q[4] = "=" THEN <<b1, b2>>
               ELSE <<b1, b2, (v3 % 4) * 64 + B64Value(q[4])>>

IsB64Char(c) == \E i \in 1..64 : B64Alphabet[i] = c

\* padding is allowed at the end of the last group only: xx== or xxx=
QuadOk(q, last) ==
    /\ IsB64Char(q[1]) /\ IsB64Char(q[2])
    /\ \/ IsB64Char(q[3]) /\ IsB64Char(q[4])
       \/ last /\ IsB64Char(q[3]) /\ q[4] = "="
       \/ last /\ q[3] = "=" /\ q[4] = "="

RECURSIVE DecodeQuads(_)
DecodeQuads(s) ==
    IF s = <<>> THEN <<>>
    ELSE DecodeQuad(SubSeq(s, 1, 4)) \o DecodeQuads(SubSeq(s, 5, Len(s)))

\* base64.StdEncoding.DecodeString: CR and LF are skipped, the input is
\* groups of four characters, and anything else is an error
DecodeString(str) ==
    LET s == SelectSeq(str, LAMBDA c : c \notin {"\r", "\n"})
        ok == /\ Len(s) % 4 = 0
              /\ \A g \in 1..(Len(s) \div 4) :
                    QuadOk(SubSeq(s, 4 * g - 3, 4 * g), g = Len(s) \div 4)
    IN IF ok
       THEN [text |-> [i \in 1..Len(DecodeQuads(s)) |-> ByteChar(DecodeQuads(s)[i])],
             ok |-> TRUE]
       ELSE [text |-> <<>>, ok |-> FALSE]

\* an extraction that looks at the bytes field first
LineTextOfBytesFirst(line) ==
    IF line.hasBytes /\ DecodeString(line.bytes).ok THEN DecodeString(line.bytes).text
    ELSE IF line.hasText THEN line.text
    ELSE <<>>

\* lineText: the text field, else the decoded bytes field, else empty
LineTextOf(line) ==
    IF line.hasText THEN line.text
    ELSE IF line.hasBytes /\ DecodeString(line.bytes).ok THEN DecodeString(line.bytes).text
    ELSE <<>>

\* the lines of the current process that the scanner has returned so far
LinesRead ==
    IF procs = <<>> THEN {}
    ELSE LET p == procs[Len(procs)] IN {p.emitted[i] : i \in 1..p.nread}

\* a check that takes an absent path text for an empty path
HasPathTextOrNone(line) == TRUE

\* matchData.Path.Text != nil
HasPathText(line) == line.hasPath

\* a loop body that drops a line equal to one it has already seen
YieldsMatchOnce(line) ==
    line.json /\ line.type = "match" /\ line.dataOk /\ line.hasPath /\ line \notin LinesRead

\* the loop body of SearchRepo decides whether the line yields a match
YieldsMatch(line) ==
    line.json /\ line.type = "match" /\ line.dataOk /\ HasPathText(line)

\* an exit status check that accepts only 0
ExitIsSuccessZeroOnly(code) == code = 0

\* cmd.Wait(): nil for exit status 0, and exit status 1 (no matches) is not an error
ExitIsSuccess(code) == code = 0 \/ code = 1

\* the Match the loop body builds from a line that yields one
MatchOf(line, repoRoot, maxLineLength) ==
    LET rel == Rel(repoRoot, line.path)
    IN [RelPath |-> IF rel.ok THEN rel.path ELSE line.path,
        LineNumber |-> line.lineNumber,
        LineText |-> Truncate(TrimRightCRLF(LineTextOf(line)), maxLineLength)]

\* the SearchResult the callback of run builds from a match
ResultOf(rc, match) ==
    [Repository |-> rc.Owner \o SL \o rc.Repo,
     LocalPath |-> match.RelPath \o <<":">> \o Itoa(match.LineNumber),
     MatchedLine |-> match.LineText,
     GitHubURL |-> BuildGitHubFileURL(rc.Owner, rc.Repo, rc.Branch,
                                      match.RelPath, match.LineNumber)]

----------------------------------------------------------------------------
(* The inputs and the environment of a run *)

\* spellings of path arguments: /w/a, a/, /w/b, /w/a/s, /w/x
RunSpellings == { <<"/","w","/","a">>, <<"a","/">>, <<"/","w","/","b">>, <<"/","w","/","a","/","s">>, <<"/","w","/","x">> }

PathLists == SeqsUpTo(RunSpellings, MaxPaths) \ {<<>>}

\* what the output file holds before the run, when it exists
OldData == << <<"o","l","d","\n">> >>

StdoutInit == [kind |-> "stdout", exists |-> TRUE, open |-> TRUE, data |-> <<>>, creates |-> 0]

FileInit(exists) ==
    [kind |-> "file", exists |-> exists, open |-> FALSE,
     data |-> IF exists THEN OldData ELSE <<>>, creates |-> 0]

OutInits == {StdoutInit, FileInit(FALSE), FileInit(TRUE)}

RunOptions == {[MaxLineLength |-> m] : m \in {0, 1}}

\* remote URLs of origin: two GitHub remotes, and URLs that are none: other
\* host, other scheme, one segment, three segments, trailing slash, empty
\* owner, empty name, leading text, host in upper case, host without its
\* dot, the SSH form with a slash for the colon, free text
GoodRemotes == { HttpsPrefix \o <<"o","/","n">> \o DotGit, SshPrefix \o <<"p","/","m">> }

BadRemotes ==
    { <<"h","t","t","p","s",":","/","/","g","i","t","l","a","b",".","c","o","m","/","o","/","n",".","g","i","t">>,
      <<"h","t","t","p",":","/","/","g","i","t","h","u","b",".","c","o","m","/","o","/","n">>,
      HttpsPrefix \o <<"o">>,
      HttpsPrefix \o <<"o","/","n","/","x">>,
      HttpsPrefix \o <<"o","/","n","/">>,
      HttpsPrefix \o <<"/","n">>,
      HttpsPrefix \o <<"o","/">>,
      <<"x">> \o HttpsPrefix \o <<"o","/","n">>,
      <<"h","t","t","p","s",":","/","/","G","i","t","H","u","b",".","c","o","m","/","o","/","n">>,
      <<"h","t","t","p","s",":","/","/","g","i","t","h","u","b","x","c","o","m","/","o","/","n">>,
      <<"g","i","t","@","g","i","t","h","u","b",".","c","o","m","/","o","/","n">>,
      <<"n","o","t","-","a","-","u","r","l">> }

RemoteURLs == GoodRemotes \cup BadRemotes

QueryFailed == [ok |-> FALSE, out |-> <<>>]

\* outcomes of git remote get-url origin
RemoteResults == {QueryFailed} \cup {[ok |-> TRUE, out |-> u \o NL] : u \in RemoteURLs}

\* outcomes of git branch --show-current: failure, nothing (detached HEAD), dev
BranchResults ==
    {QueryFailed, [ok |-> TRUE, out |-> <<>>], [ok |-> TRUE, out |-> <<"d","e","v","\n">>]}

\* the lines a search process may write when it searches root
EventLines(root) ==
    { EventLine(TRUE, "match", TRUE, TRUE, root \o <<"/","f">>, 1, TRUE, <<"p","q","\n">>, FALSE),
      EventLine(TRUE, "match", TRUE, TRUE, root \o <<"/","d","/","g">>, 12, TRUE,
                <<"\t","r","\r","\n">>, FALSE),
      EventLine(TRUE, "begin", TRUE, TRUE, root \o <<"/","f">>, 0, FALSE, <<>>, FALSE),
      EventLine(FALSE, "", FALSE, FALSE, <<>>, 0, FALSE, <<>>, TRUE) }

\* more lines a process may write: one that is no JSON, a summary event, a
\* match event whose data is no MatchData, a match event without path text
\* (with and without a text, the second with a path of bytes only), a match
\* event one byte over the first size of the buffer, a match event that
\* fills the largest buffer
OtherLines(root) ==
    { EventLine(FALSE, "", FALSE, FALSE, <<>>, 0, FALSE, <<>>, FALSE),
      EventLine(TRUE, "summary", FALSE, FALSE, <<>>, 0, FALSE, <<>>, FALSE),
      EventLine(TRUE, "match", FALSE, FALSE, <<>>, 0, FALSE, <<>>, FALSE),
      EventLine(TRUE, "match", TRUE, FALSE, <<>>, 7, TRUE, <<"p","q","\n">>, FALSE),
      EventLine(TRUE, "match", TRUE, FALSE, <<>>, 0, FALSE, <<>>, FALSE),
      LongMatch(root, 3, 64 * 1024 + 1),
      LongMatch(root, 4, 10 * 1024 * 1024) }

ExitCodes == {0, 1, 2}

----------------------------------------------------------------------------
(* internal/git/repo.go: DeduplicateRepoPaths, one iteration per step *)

NoRunErr == [stage |-> "nil", cause |-> NoError]

RunErr(stage, cause) == [stage |-> stage, cause |-> cause]

Pending == Err("pending", <<>>)

\* an append that does not look at the seen map
AddUniqueAlways(seenPaths, uniq, absPath) == Append(uniq, absPath)

\* if !seen[absPath] { unique = append(unique, absPath) }
AddUnique(seenPaths, uniq, absPath) ==
    IF absPath \notin seenPaths THEN Append(uniq, absPath) ELSE uniq

\* the deferred file.Close() of run
Closed(o) == IF o.kind = "file" /\ o.open THEN [o EXCEPT !.open = FALSE] ELSE o

\* one iteration that skips an invalid path and goes on
DedupStepBestEffort ==
    /\ pc = "dedup"
    /\ idx <= Len(paths)
    /\ LET path == paths[idx]
           e == ValidateRepoRoot(path)
       IN /\ gitCalls' = Append(gitCalls, path)
          /\ idx' = idx + 1
          /\ seen' = IF e # NoError THEN seen ELSE seen \cup {Abs(path)}
          /\ unique' = IF e # NoError THEN unique ELSE AddUnique(seen, unique, Abs(path))
          /\ UNCHANGED <<pc, runErr, uniqueRepos, sink>>
    /\ UNCHANGED <<paths, opts, repoIdx, repoCtx, ctxLog, procs, pipe, vpath, vresult, urlParts, parsed, conv, call>>

\* one iteration of the range loop; on an invalid path the function returns
\* (nil, err) and run returns the wrapped error
DedupStep ==
    /\ pc = "dedup"
    /\ idx <= Len(paths)
    /\ LET path == paths[idx]
           e == ValidateRepoRoot(path)
       IN /\ gitCalls' = Append(gitCalls, path)
          /\ IF e # NoError
             THEN /\ pc' = "done"
                  /\ runErr' = RunErr("repository validation failed", e)
                  /\ uniqueRepos' = <<>>
                  /\ sink' = Closed(sink)
                  /\ UNCHANGED <<idx, seen, unique>>
             ELSE /\ seen' = seen \cup {Abs(path)}
                  /\ unique' = AddUnique(seen, unique, Abs(path))
                  /\ idx' = idx + 1
                  /\ UNCHANGED <<pc, runErr, uniqueRepos, sink>>
    /\ UNCHANGED <<paths, opts, repoIdx, repoCtx, ctxLog, procs, pipe, vpath, vresult, urlParts, parsed, conv, call>>

\* return unique, nil
DedupReturn ==
    /\ pc = "dedup"
    /\ idx > Len(paths)
    /\ uniqueRepos' = unique
    /\ pc' = "resolved"
    /\ UNCHANGED <<paths, opts, sink, idx, seen, unique, gitCalls, runErr, repoIdx, repoCtx,
                   ctxLog, procs, pipe, vpath, vresult, urlParts, parsed, conv, call>>

----------------------------------------------------------------------------
(* package main: run *)

\* the output file is created before the paths are validated
OpenOutputEarly ==
    /\ \/ pc = "resolved"
       \/ pc = "dedup" /\ idx = 1 /\ sink.kind = "file" /\ sink.creates = 0
    /\ IF pc = "dedup"
       THEN /\ sink' = [sink EXCEPT !.exists = TRUE, !.open = TRUE, !.data = <<>>,
                                    !.creates = @ + 1]
            /\ UNCHANGED <<pc, paths, gitCalls, idx, seen, unique, runErr, repoIdx>>
       ELSE /\ sink' = IF sink.kind = "file" /\ sink.creates = 0
                       THEN [sink EXCEPT !.exists = TRUE, !.open = TRUE, !.data = <<>>,
                                         !.creates = @ + 1]
                       ELSE sink
            /\ pc' = "context"
            /\ repoIdx' = 1
            /\ paths' = <<>> /\ gitCalls' = <<>> /\ idx' = 0 /\ seen' = {} /\ unique' = <<>>
            /\ UNCHANGED runErr
    /\ UNCHANGED <<opts, uniqueRepos, repoCtx, ctxLog, procs, pipe,
                   vpath, vresult, urlParts, parsed, conv, call>>

\* the writer: os.Stdout, or os.Create(outputFile), which truncates an
\* existing file and may fail.  The arguments and the locals of the resolver
\* are not read again, they leave the state here.
OpenOutput ==
    /\ pc = "resolved"
    /\ paths' = <<>> /\ gitCalls' = <<>> /\ idx' = 0 /\ seen' = {} /\ unique' = <<>>
    /\ IF sink.kind = "stdout"
       THEN /\ pc' = "context"
            /\ repoIdx' = 1
            /\ UNCHANGED <<sink, runErr>>
       ELSE \E created \in BOOLEAN :
               IF created
               THEN /\ sink' = [sink EXCEPT !.exists = TRUE, !.open = TRUE, !.data = <<>>,
                                            !.creates = @ + 1]
                    /\ pc' = "context"
                    /\ repoIdx' = 1
                    /\ UNCHANGED runErr
               ELSE /\ pc' = "done"
                    /\ runErr' = RunErr("failed to create output file", NoError)
                    /\ UNCHANGED <<sink, repoIdx>>
    /\ UNCHANGED <<opts, uniqueRepos, repoCtx, ctxLog, procs, pipe,
                   vpath, vresult, urlParts, parsed, conv, call>>

CtxEntry(root, remoteRes, branchRes, res) ==
    [root |-> root, remote |-> remoteRes, branch |-> branchRes,
     ctx |-> res.ctx, err |-> res.err, gh |-> res.gh]

\* git branch --show-current is run only when the remote has been parsed
BranchOutcomes(root, remoteRes) ==
    IF getRepoContext(root, remoteRes, QueryFailed).err # NoError
    THEN {QueryFailed}
    ELSE BranchResults

\* a loop that skips a root whose context cannot be derived
GetContextSkip ==
    /\ pc = "context"
    /\ \E remoteRes \in RemoteResults :
       \E branchRes \in BranchOutcomes(uniqueRepos[repoIdx], remoteRes) :
          LET root == uniqueRepos[repoIdx]
              res == getRepoContext(root, remoteRes, branchRes)
          IN /\ ctxLog' = Append(ctxLog, CtxEntry(root, remoteRes, branchRes, res))
             /\ IF res.err # NoError
                THEN IF repoIdx < Len(uniqueRepos)
                     THEN /\ repoIdx' = repoIdx + 1
                          /\ UNCHANGED <<pc, runErr, sink, repoCtx>>
                     ELSE /\ pc' = "done"
                          /\ sink' = Closed(sink)
                          /\ UNCHANGED <<runErr, repoCtx, repoIdx>>
                ELSE /\ repoCtx' = res.ctx
                     /\ pc' = "search"
                     /\ UNCHANGED <<runErr, sink, repoIdx>>
    /\ UNCHANGED <<paths, opts, idx, seen, unique, gitCalls, uniqueRepos, procs, pipe,
                   vpath, vresult, urlParts, parsed, conv, call>>

\* repoCtx, err := getRepoContext(repoRoot); an error ends the run
GetContext ==
    /\ pc = "context"
    /\ \E remoteRes \in RemoteResults :
       \E branchRes \in BranchOutcomes(uniqueRepos[repoIdx], remoteRes) :
          LET root == uniqueRepos[repoIdx]
              res == getRepoContext(root, remoteRes, branchRes)
          IN /\ ctxLog' = Append(ctxLog, CtxEntry(root, remoteRes, branchRes, res))
             /\ IF res.err # NoError
                THEN /\ pc' = "done"
                     /\ runErr' = RunErr("failed to get repository context", res.err)
                     /\ sink' = Closed(sink)
                     /\ UNCHANGED repoCtx
                ELSE /\ repoCtx' = res.ctx
                     /\ pc' = "search"
                     /\ UNCHANGED <<runErr, sink>>
    /\ UNCHANGED <<paths, opts, idx, seen, unique, gitCalls, uniqueRepos, repoIdx, procs, pipe,
                   vpath, vresult, urlParts, parsed, conv, call>>

----------------------------------------------------------------------------
(* internal/search/ripgrep.go: SearchRepo, called by run with its callback *)

\* the process of one SearchRepo call: its exit, whether cmd.Wait() has been
\* called, whether the read end of its stdout pipe is open (Wait closes it),
\* the lines it wrote, the lines scanned, the callback outcomes, the result
NewProc(root) ==
    [root |-> root, state |-> "running", code |-> 0, waited |-> FALSE, pipeOpen |-> TRUE,
     emitted |-> <<>>, nread |-> 0, calls |-> <<>>, err |-> Pending]

RECURSIVE TotalEmitted(_)
TotalEmitted(ps) == IF ps = <<>> THEN 0 ELSE Len(Head(ps).emitted) + TotalEmitted(Tail(ps))

\* exec.LookPath, cmd.StdoutPipe and cmd.Start: the process runs, or
\* SearchRepo returns an error before any line is read
StartSearch ==
    /\ pc = "search"
    /\ \E outcome \in {"started", "ripgrep not found", "failed to start ripgrep"} :
          IF outcome = "started"
          THEN /\ procs' = Append(procs, NewProc(uniqueRepos[repoIdx]))
               /\ pipe' = <<>>
               /\ pc' = "scan"
               /\ UNCHANGED <<runErr, sink>>
          ELSE /\ pc' = "done"
               /\ runErr' = RunErr("search failed", Err(outcome, <<>>))
               /\ sink' = Closed(sink)
               /\ UNCHANGED <<procs, pipe>>
    /\ UNCHANGED <<paths, opts, idx, seen, unique, gitCalls, uniqueRepos, repoIdx, repoCtx,
                   ctxLog, vpath, vresult, urlParts, parsed, conv, call>>

\* the search process writes one line to its standard output
RgEmit ==
    /\ pc = "scan"
    /\ procs[Len(procs)].state = "running"
    /\ TotalEmitted(procs) < MaxEvents
    /\ Len(pipe) < MaxPipe
    /\ \E line \in EventLines(procs[Len(procs)].root) :
          /\ pipe' = Append(pipe, line)
          /\ procs' = [procs EXCEPT ![Len(procs)].emitted = Append(@, line)]
    /\ UNCHANGED <<pc, paths, opts, sink, idx, seen, unique, gitCalls, uniqueRepos, runErr,
                   repoIdx, repoCtx, ctxLog, vpath, vresult, urlParts, parsed, conv, call>>

\* the search process exits, which closes its end of the pipe
RgExit ==
    /\ pc = "scan"
    /\ procs[Len(procs)].state = "running"
    /\ \E code \in ExitCodes :
          procs' = [procs EXCEPT ![Len(procs)].state = "exited", ![Len(procs)].code = code]
    /\ UNCHANGED <<pc, paths, opts, sink, idx, seen, unique, gitCalls, uniqueRepos, runErr,
                   repoIdx, repoCtx, ctxLog, pipe, vpath, vresult, urlParts, parsed, conv, call>>

\* what a write of the callback may return: nil, or the error of the sink
WriteOk == <<>>

WriteErrors == { <<"w","r","i","t","e"," ","e","r","r","o","r">>, <<"E","P","I","P","E">> }

WriteOutcomes == {WriteOk} \cup WriteErrors

\* TSVWriter.Write: the line of the result is written to the sink and
\* flushed before Write returns; a failed write leaves the sink as it was
TSVWriterWrite(o, result, w) ==
    IF w = WriteOk THEN [o EXCEPT !.data = Append(@, FormatRecord(result))] ELSE o

\* a callback that keeps the result for later and writes nothing
onMatchCollect(o, rc, match, w) == o

\* the callback of run: the result of the match is built and written at once
onMatch(o, rc, match, w) == TSVWriterWrite(o, ResultOf(rc, match), w)

\* a loop that goes on when the callback has returned an error
CallbackErrIgnored(w) == NoError

\* if err := onMatch(match); err != nil { return "callback error: %w" }
CallbackErr(w) == IF w # WriteOk THEN Err("callback error", w) ELSE NoError

\* scanner.Scan() returns a line, or fails on a line over the buffer limit;
\* a line that yields a match goes to the callback, which formats the
\* record and writes it; a failed write ends SearchRepo and the run
ScanLine ==
    /\ pc = "scan"
    /\ pipe # <<>>
    /\ LET line == Head(pipe)
           root == procs[Len(procs)].root
       IN /\ pipe' = Tail(pipe)
          /\ IF ~TokenFits(line.nbytes)
             THEN /\ procs' = [procs EXCEPT ![Len(procs)].nread = @ + 1,
                                            ![Len(procs)].err =
                                                Err("error reading ripgrep output", <<>>)]
                  /\ pc' = "done"
                  /\ runErr' = RunErr("search failed",
                                      Err("error reading ripgrep output", <<>>))
                  /\ sink' = Closed(sink)
             ELSE IF ~YieldsMatch(line)
             THEN /\ procs' = [procs EXCEPT ![Len(procs)].nread = @ + 1]
                  /\ UNCHANGED <<pc, runErr, sink>>
             ELSE \E w \in WriteOutcomes :
                     LET e == CallbackErr(w)
                         written == onMatch(sink, repoCtx,
                                            MatchOf(line, root, opts.MaxLineLength), w)
                     IN /\ procs' = [procs EXCEPT ![Len(procs)].nread = @ + 1,
                                                  ![Len(procs)].calls = Append(@, w),
                                                  ![Len(procs)].err =
                                                      IF e # NoError THEN e ELSE @]
                        /\ IF e # NoError
                           THEN /\ pc' = "done"
                                /\ runErr' = RunErr("search failed", e)
                                /\ sink' = Closed(written)
                           ELSE /\ sink' = written
                                /\ UNCHANGED <<pc, runErr>>
    /\ UNCHANGED <<paths, opts, idx, seen, unique, gitCalls, uniqueRepos, repoIdx, repoCtx,
                   ctxLog, vpath, vresult, urlParts, parsed, conv, call>>

\* a wait whose exit status is not looked at
WaitErrIgnored(code) == NoError

\* what SearchRepo returns after cmd.Wait()
WaitErr(code) ==
    IF ExitIsSuccess(code) THEN NoError ELSE Err("ripgrep failed", <<>>)

\* scanner.Scan() reports the end of the stream; cmd.Wait() gives the exit
\* status; on success run goes on with the next root or returns nil
ScanEOF ==
    /\ pc = "scan"
    /\ pipe = <<>>
    /\ procs[Len(procs)].state = "exited"
    /\ LET e == WaitErr(procs[Len(procs)].code)
       IN /\ procs' = [procs EXCEPT ![Len(procs)].waited = TRUE,
                                    ![Len(procs)].pipeOpen = FALSE,
                                    ![Len(procs)].err = e]
          /\ IF e = NoError
             THEN IF repoIdx < Len(uniqueRepos)
                  THEN /\ repoIdx' = repoIdx + 1
                       /\ pc' = "context"
                       /\ UNCHANGED <<runErr, sink>>
                  ELSE /\ pc' = "done"
                       /\ sink' = Closed(sink)
                       /\ UNCHANGED <<runErr, repoIdx>>
             ELSE /\ pc' = "done"
                  /\ runErr' = RunErr("search failed", e)
                  /\ sink' = Closed(sink)
                  /\ UNCHANGED repoIdx
    /\ UNCHANGED <<paths, opts, idx, seen, unique, gitCalls, uniqueRepos, repoCtx, ctxLog,
                   pipe, vpath, vresult, urlParts, parsed, conv, call>>

----------------------------------------------------------------------------
(* Specification of a run *)

\* nothing is being converted
NoConv == [ev |-> <<>>, match |-> <<>>, result |-> <<>>, record |-> <<>>]

\* no command line is being built
NoCall == [flags |-> <<>>, pattern |-> "", root |-> "", opts |-> <<>>, args |-> <<>>]

IdleAlone ==
    /\ conv = NoConv
    /\ call = NoCall
    /\ vpath = <<>>
    /\ vresult = Pending
    /\ urlParts = [owner |-> <<>>, name |-> <<>>]
    /\ parsed = <<>>

IdleRun ==
    /\ paths = <<>>
    /\ opts = [MaxLineLength |-> 0]
    /\ sink = StdoutInit
    /\ idx = 0
    /\ seen = {}
    /\ unique = <<>>
    /\ gitCalls = <<>>
    /\ uniqueRepos = <<>>
    /\ runErr = NoRunErr
    /\ repoIdx = 0
    /\ repoCtx = NoCtx
    /\ ctxLog = <<>>
    /\ procs = <<>>
    /\ pipe = <<>>

Init ==
    /\ pc = "dedup"
    /\ paths \in PathLists
    /\ opts \in RunOptions
    /\ sink \in OutInits
    /\ idx = 1
    /\ seen = {}
    /\ unique = <<>>
    /\ gitCalls = <<>>
    /\ uniqueRepos = <<>>
    /\ runErr = NoRunErr
    /\ repoIdx = 0
    /\ repoCtx = NoCtx
    /\ ctxLog = <<>>
    /\ procs = <<>>
    /\ pipe = <<>>
    /\ IdleAlone

Next ==
    \/ DedupStep
    \/ DedupReturn
    \/ OpenOutput
    \/ GetContext
    \/ StartSearch
    \/ RgEmit
    \/ RgExit
    \/ ScanLine
    \/ ScanEOF

Spec == Init /\ [][Next]_vars

----------------------------------------------------------------------------
(* ValidateRepoRoot alone, on every spelling of a path up to MaxSegs elements *)

PathElems ==
    { <<"w">>, <<"a">>, <<"b">>, <<"s">>, <<"t">>, <<"k">>, <<"l">>, <<"x">>,
      <<".">>, <<".", ".">>, <<>> }

ValidateInputs ==
    {lead \o JoinWith(elems, SL) :
        lead \in {<<>>, SL}, elems \in SeqsUpTo(PathElems, MaxSegs) \ {<<>>}}

InitValidate ==
    /\ pc = "validate"
    /\ vpath \in ValidateInputs
    /\ vresult = Pending
    /\ urlParts = [owner |-> <<>>, name |-> <<>>]
    /\ parsed = <<>>
    /\ conv = NoConv
    /\ call = NoCall
    /\ IdleRun

ValidateCall ==
    /\ pc = "validate"
    /\ vresult' = ValidateRepoRoot(vpath)
    /\ pc' = "validated"
    /\ UNCHANGED <<vpath, urlParts, parsed, conv, call>>
    /\ UNCHANGED runVars

NextValidate == ValidateCall

SpecValidate == InitValidate /\ [][NextValidate]_vars

\* the path denotes an existing directory inside a work tree, below its top level
IsStrictSubdir(p) ==
    /\ PhysDir(p) # NoDir
    /\ EnclosingRoot(PhysDir(p)) # NoDir
    /\ EnclosingRoot(PhysDir(p)) # PhysDir(p)

\* the path denotes the top-level directory of a work tree
IsRepoRoot(p) == PhysDir(p) \in RepoRoots

----------------------------------------------------------------------------
(* ParseGitHubURL alone, on the four URL shapes of an owner and a name *)

NameChars == {"n", ".", "g", "i", "t", "/"}

UrlOwners == { <<"o">>, <<"o", "-", "1">>, <<>> }

UrlNames == SeqsUpTo(NameChars, MaxNameLen)

\* https://github.com/owner/name, the same with .git, git@github.com:owner/name,
\* the same with .git
ShapeURL(shape, owner, name) ==
    (IF shape \in {1, 2} THEN HttpsPrefix ELSE SshPrefix) \o owner \o SL \o name
        \o (IF shape \in {2, 4} THEN DotGit ELSE <<>>)

InitParse ==
    /\ pc = "parse"
    /\ urlParts \in [owner : UrlOwners, name : UrlNames]
    /\ parsed = <<>>
    /\ vpath = <<>>
    /\ vresult = Pending
    /\ conv = NoConv
    /\ call = NoCall
    /\ IdleRun

ParseShape ==
    /\ pc = "parse"
    /\ Len(parsed) < 4
    /\ parsed' = Append(parsed,
                        ParseGitHubURL(ShapeURL(Len(parsed) + 1, urlParts.owner, urlParts.name)))
    /\ UNCHANGED <<pc, vpath, vresult, urlParts, conv, call>>
    /\ UNCHANGED runVars

NextParse == ParseShape

SpecParse == InitParse /\ [][NextParse]_vars

----------------------------------------------------------------------------
(* One match event alone: the loop body of SearchRepo, the callback of run *)
(* and the record line; and one SearchResult alone, given to the writer    *)

TextChars == {"a", "b", " ", "\t", "\n", "\r"}

Texts == SeqsUpTo(TextChars, MaxTextLen)

MaxLineLengths == {0, 1, 2}

ConvRoot == <<"/","w","/","a">>

\* contexts: o/n on dev, p-1/m.x on main
ConvCtxs ==
    { [Root |-> ConvRoot, Owner |-> <<"o">>, Repo |-> <<"n">>, Branch |-> <<"d","e","v">>],
      [Root |-> ConvRoot, Owner |-> <<"p","-","1">>, Repo |-> <<"m",".","x">>, Branch |-> Main] }

\* paths of match events: a file of the root, a file in a directory whose
\* name has a space, a file whose name has a tab, a file outside the root,
\* a relative path
ConvPaths ==
    { ConvRoot \o <<"/","f">>,
      ConvRoot \o <<"/","d"," ","e","/","g">>,
      ConvRoot \o <<"/","g","\t","h">>,
      <<"/","w","/","b","/","f">>,
      <<"f">> }

LineNumbers == {0, 1, 12, 305}

\* values of the bytes field: a, a LF, a CR LF, ab, aba, a TAB b, the byte
\* FF, nothing; and values that are no base64: no padding, a character
\* outside the alphabet, padding in the middle
Base64Inputs ==
    { <<"Y","Q","=","=">>, <<"Y","Q","o","=">>, <<"Y","Q","0","K">>, <<"Y","W","I","=">>,
      <<"Y","W","J","h">>, <<"Y","Q","l","i">>, <<"/","w","=","=">>, <<>>,
      <<"Y","Q">>, <<"Y","!","=","=">>, <<"Y","=","=","Q">> }

TextEvent(t) == EventLine(TRUE, "match", TRUE, TRUE, ConvRoot \o <<"/","f">>, 1, TRUE, t, FALSE)

EventInputs ==
    {[line |-> TextEvent(t), root |-> ConvRoot, m |-> m, rc |-> c] :
        t \in Texts, m \in MaxLineLengths,
        c \in {[Root |-> ConvRoot, Owner |-> <<"o">>, Repo |-> <<"n">>, Branch |-> Main]}}
    \cup
    {[line |-> BytesEvent(ConvRoot \o <<"/","f">>, 1, h, <<"b","\n">>, b),
      root |-> ConvRoot, m |-> m, rc |-> c] :
        h \in BOOLEAN, b \in Base64Inputs, m \in MaxLineLengths,
        c \in {[Root |-> ConvRoot, Owner |-> <<"o">>, Repo |-> <<"n">>, Branch |-> Main]}}
    \cup
    {[line |-> EventLine(TRUE, "match", TRUE, TRUE, q, n, h, <<"p"," ","q","\n">>, FALSE),
      root |-> ConvRoot, m |-> 0, rc |-> c] :
        q \in ConvPaths, n \in LineNumbers, h \in BOOLEAN, c \in ConvCtxs}

\* results given to the writer directly
ResultInputs ==
    {[Repository |-> <<"o","/","n">>, LocalPath |-> <<"f",":","1">>, MatchedLine |-> t,
      GitHubURL |-> <<"u">>] : t \in Texts}

InitFormat ==
    /\ \/ pc = "extract" /\ \E e \in EventInputs : conv = [NoConv EXCEPT !.ev = e]
       \/ pc = "format" /\ \E r \in ResultInputs : conv = [NoConv EXCEPT !.result = r]
    /\ vpath = <<>>
    /\ vresult = Pending
    /\ urlParts = [owner |-> <<>>, name |-> <<>>]
    /\ parsed = <<>>
    /\ call = NoCall
    /\ IdleRun

\* the loop body of SearchRepo builds the Match of the event
ExtractMatch ==
    /\ pc = "extract"
    /\ conv' = [conv EXCEPT !.match = MatchOf(conv.ev.line, conv.ev.root, conv.ev.m)]
    /\ pc' = "convert"
    /\ UNCHANGED <<vpath, vresult, urlParts, parsed, call>>
    /\ UNCHANGED runVars

\* the callback of run builds the SearchResult of the Match
BuildResult ==
    /\ pc = "convert"
    /\ conv' = [conv EXCEPT !.result = ResultOf(conv.ev.rc, conv.match)]
    /\ pc' = "format"
    /\ UNCHANGED <<vpath, vresult, urlParts, parsed, call>>
    /\ UNCHANGED runVars

\* the writer formats the line of the SearchResult
WriteRecord ==
    /\ pc = "format"
    /\ conv' = [conv EXCEPT !.record = FormatRecord(conv.result)]
    /\ pc' = "written"
    /\ UNCHANGED <<vpath, vresult, urlParts, parsed, call>>
    /\ UNCHANGED runVars

NextFormat ==
    \/ ExtractMatch
    \/ BuildResult
    \/ WriteRecord

SpecFormat == InitFormat /\ [][NextFormat]_vars

----------------------------------------------------------------------------
(* SearchRepo alone: one search of one root, the process writes any line *)

\* the search process writes one line, of any kind, to its standard output
RgEmitAny ==
    /\ pc = "scan"
    /\ procs[Len(procs)].state = "running"
    /\ TotalEmitted(procs) < MaxEvents
    /\ Len(pipe) < MaxPipe
    /\ \E line \in EventLines(procs[Len(procs)].root) \cup OtherLines(procs[Len(procs)].root) :
          /\ pipe' = Append(pipe, line)
          /\ procs' = [procs EXCEPT ![Len(procs)].emitted = Append(@, line)]
    /\ UNCHANGED <<pc, paths, opts, sink, idx, seen, unique, gitCalls, uniqueRepos, runErr,
                   repoIdx, repoCtx, ctxLog, vpath, vresult, urlParts, parsed, conv, call>>

\* the call SearchRepo(pattern, repoRoot, opts, onMatch) with the callback
\* of run under the context o/n on dev
InitSearch ==
    /\ pc = "search"
    /\ paths = <<>>
    /\ opts \in RunOptions
    /\ sink = StdoutInit
    /\ idx = 0
    /\ seen = {}
    /\ unique = <<>>
    /\ gitCalls = <<>>
    /\ uniqueRepos = <<ConvRoot>>
    /\ runErr = NoRunErr
    /\ repoIdx = 1
    /\ repoCtx = [Root |-> ConvRoot, Owner |-> <<"o">>, Repo |-> <<"n">>, Branch |-> <<"d","e","v">>]
    /\ ctxLog = <<>>
    /\ procs = <<>>
    /\ pipe = <<>>
    /\ IdleAlone

NextSearch ==
    \/ StartSearch
    \/ RgEmitAny
    \/ RgExit
    \/ ScanLine
    \/ ScanEOF

SpecSearch == InitSearch /\ [][NextSearch]_vars

----------------------------------------------------------------------------
(* The command line alone: the flags of newRootCmd, the SearchOptions of *)
(* run, the arguments SearchRepo gives to rg                              *)

\* a loop that appends the glob patterns from the last to the first
RECURSIVE GlobArgsReversed(_)
GlobArgsReversed(globs) ==
    IF globs = <<>> THEN <<>>
    ELSE GlobArgsReversed(Tail(globs)) \o <<"--glob", Head(globs)>>

\* for _, glob := range opts.Globs { args = append(args, "--glob", glob) }
RECURSIVE GlobArgs(_)
GlobArgs(globs) ==
    IF globs = <<>> THEN <<>>
    ELSE <<"--glob", Head(globs)>> \o GlobArgs(Tail(globs))

\* the argument list of rg built by SearchRepo
BuildArgs(pattern, repoRoot, o) ==
    <<"--json">>
        \o (IF o.IgnoreCase THEN <<"-i">> ELSE <<>>)
        \o GlobArgs(o.Globs)
        \o (IF o.Hidden THEN <<"--hidden">> ELSE <<>>)
        \o (IF o.FixedStrings THEN <<"-F">> ELSE <<>>)
        \o (IF o.Encoding # "" THEN <<"--encoding", o.Encoding>> ELSE <<>>)
        \o <<pattern, repoRoot>>

\* the default of the encoding flag in newRootCmd
EncodingDefault == "auto"

\* cmd.Flags().GetString("encoding"): the value given, or the default
GetEncoding(f) == IF f.encodingGiven THEN f.encoding ELSE EncodingDefault

\* searchOpts of run, from the flags
SearchOptsOf(f) ==
    [IgnoreCase |-> f.ignoreCase, Globs |-> f.globs, Hidden |-> f.hidden,
     FixedStrings |-> f.fixedStrings, MaxLineLength |-> 0, Encoding |-> GetEncoding(f)]

GlobPatterns == {"*.go", "!*_test.go"}

GlobLists == SeqsUpTo(GlobPatterns, MaxGlobs)

Patterns == {"TODO", "-i"}

\* the flags of a command line: --encoding is given with a value, or not given
FlagSets ==
    [ignoreCase : BOOLEAN, globs : GlobLists, hidden : BOOLEAN, fixedStrings : BOOLEAN,
     encodingGiven : {TRUE}, encoding : {"auto", "shift_jis", ""}]
    \cup
    [ignoreCase : BOOLEAN, globs : GlobLists, hidden : BOOLEAN, fixedStrings : BOOLEAN,
     encodingGiven : {FALSE}, encoding : {""}]

\* the options of a direct call of SearchRepo
OptionSets ==
    [IgnoreCase : BOOLEAN, Globs : GlobLists, Hidden : BOOLEAN, FixedStrings : BOOLEAN,
     MaxLineLength : {0}, Encoding : {"", "auto", "shift_jis"}]

InitArgs ==
    /\ \/ /\ pc = "flags"
          /\ \E f \in FlagSets, pt \in Patterns :
                call = [NoCall EXCEPT !.flags = f, !.pattern = pt, !.root = "/w/a"]
       \/ /\ pc = "build"
          /\ \E o \in OptionSets, pt \in Patterns :
                call = [NoCall EXCEPT !.opts = o, !.pattern = pt, !.root = "/w/a"]
    /\ conv = NoConv
    /\ vpath = <<>>
    /\ vresult = Pending
    /\ urlParts = [owner |-> <<>>, name |-> <<>>]
    /\ parsed = <<>>
    /\ IdleRun

\* run reads the flags and fills searchOpts
ReadFlags ==
    /\ pc = "flags"
    /\ call' = [call EXCEPT !.opts = SearchOptsOf(call.flags)]
    /\ pc' = "build"
    /\ UNCHANGED <<vpath, vresult, urlParts, parsed, conv>>
    /\ UNCHANGED runVars

\* SearchRepo builds the arguments of exec.Command("rg", args...)
BuildCommand ==
    /\ pc = "build"
    /\ call' = [call EXCEPT !.args = BuildArgs(call.pattern, call.root, call.opts)]
    /\ pc' = "built"
    /\ UNCHANGED <<vpath, vresult, urlParts, parsed, conv>>
    /\ UNCHANGED runVars

NextArgs ==
    \/ ReadFlags
    \/ BuildCommand

SpecArgs == InitArgs /\ [][NextArgs]_vars

----------------------------------------------------------------------------
(* Properties: repository resolver *)

\* the canonical paths of the arguments: absolute and cleaned
CanonSet == {Abs(paths[i]) : i \in 1..Len(paths)}

FirstAt(c) == Min({i \in 1..Len(paths) : Abs(paths[i]) = c})

InvalidAt == {i \in 1..Len(paths) : ValidateRepoRoot(paths[i]) # NoError}

\* C1: when every path argument is a valid repository root, the resolver
\* returns a list with one entry per distinct canonical path, each exactly
\* once, ordered by the first occurrence of the path among the arguments.
C1_UniqueInFirstOccurrenceOrder ==
    (paths # <<>> /\ InvalidAt = {} /\ pc # "dedup") =>
        /\ pc = "resolved"
        /\ Len(uniqueRepos) = Cardinality(CanonSet)
        /\ \A c \in CanonSet :
              Cardinality({j \in 1..Len(uniqueRepos) : uniqueRepos[j] = c}) = 1
        /\ \A i, j \in 1..Len(uniqueRepos) :
              i < j => FirstAt(uniqueRepos[i]) < FirstAt(uniqueRepos[j])

\* three arguments, the first and the third two spellings of one root
C1_Witness ==
    /\ pc = "resolved"
    /\ Len(paths) = 3
    /\ paths[1] # paths[3]
    /\ Abs(paths[1]) = Abs(paths[3])
    /\ uniqueRepos = << <<"/","w","/","a">>, <<"/","w","/","b">> >>

\* C2: for every path that is a strict subdirectory of a repository,
\* ValidateRepoRoot fails with the subdirectory error.
C2_SubdirectoryRejected ==
    (pc = "validated" /\ IsStrictSubdir(vpath)) =>
        vresult = Err("path is not a repository root (subdirectory detected)", vpath)

\* C3: when some path argument is invalid, the resolver returns the error of
\* the first invalid one and no list, whatever precedes or follows it, and
\* no path after the first invalid one is validated.
C3_FailFast ==
    (paths # <<>> /\ InvalidAt # {}) =>
        /\ pc \in {"dedup", "done"}
        /\ uniqueRepos = <<>>
        /\ Len(gitCalls) <= Min(InvalidAt)
        /\ gitCalls = SubSeq(paths, 1, Len(gitCalls))
        /\ pc = "done" =>
              /\ Len(gitCalls) = Min(InvalidAt)
              /\ runErr = RunErr("repository validation failed",
                                 ValidateRepoRoot(paths[Min(InvalidAt)]))

\* an invalid path between two valid ones
C3_Witness ==
    /\ pc = "done"
    /\ Len(paths) = 3
    /\ InvalidAt = {2}
    /\ runErr.stage = "repository validation failed"
    /\ Len(gitCalls) = 2

\* C4: when the resolution fails, the run returns an error and nothing else
\* has happened: the output destination is as it was before the run (not
\* created, not truncated, no record), no context was derived and no search
\* process was started.
C4_NothingAfterFailedResolution ==
    (paths # <<>> /\ InvalidAt # {}) =>
        /\ sink \in OutInits
        /\ ctxLog = <<>>
        /\ procs = <<>>
        /\ pc = "done" => runErr.stage = "repository validation failed"

\* the run has failed on its second path and the existing output file is untouched
C4_Witness ==
    /\ pc = "done"
    /\ runErr.stage = "repository validation failed"
    /\ Len(gitCalls) = 2
    /\ sink = FileInit(TRUE)

----------------------------------------------------------------------------
(* Properties: GitHub remote and repository context *)

SamePairs ==
    \A i, j \in 1..Len(parsed) :
        parsed[i].owner = parsed[j].owner /\ parsed[i].repo = parsed[j].repo

\* C5 as stated: for all owner and name values the four URL shapes give the
\* same (owner, name) pair.
C5_SamePairForAllNames == Len(parsed) = 4 => SamePairs

\* C5, amended: for all owner values and all non-empty name values that do
\* not end in ".git", the four URL shapes give the same (owner, name) pair.
C5_SamePairWithoutGitSuffix ==
    (Len(parsed) = 4 /\ urlParts.name # <<>> /\ ~HasSuffix(urlParts.name, DotGit)) =>
        SamePairs

\* owner o and name git, parsed in all four shapes
C5_Witness ==
    /\ Len(parsed) = 4
    /\ urlParts = [owner |-> <<"o">>, name |-> <<"g","i","t">>]
    /\ \A i \in 1..4 : parsed[i] = [owner |-> <<"o">>, repo |-> <<"g","i","t">>,
                                    err |-> NoError]

\* one of the two accepted shapes: the https or the SSH prefix of github.com,
\* then exactly one slash, with text on both sides of it
AcceptedShape(u) ==
    \E pre \in {HttpsPrefix, SshPrefix} :
        /\ HasPrefix(u, pre)
        /\ LET t == SubSeq(u, Len(pre) + 1, Len(u))
           IN /\ Cardinality({i \in 1..Len(t) : t[i] = "/"}) = 1
              /\ t[1] # "/"
              /\ t[Len(t)] # "/"

\* the remote URL of a logged call of getRepoContext
RemoteOf(e) == SubSeq(e.remote.out, 1, Len(e.remote.out) - 1)

\* C6: for a remote URL that is not of an accepted shape, ParseGitHubURL
\* fails with an empty owner and an empty name, and the run fails at that
\* repository.
C6_UnsupportedRemoteFails ==
    \A j \in 1..Len(ctxLog) :
        (ctxLog[j].remote.ok /\ ~AcceptedShape(RemoteOf(ctxLog[j]))) =>
            /\ ctxLog[j].gh.err # NoError
            /\ ctxLog[j].gh.err # NotParsed.err
            /\ ctxLog[j].gh.owner = <<>>
            /\ ctxLog[j].gh.repo = <<>>
            /\ ctxLog[j].ctx = NoCtx
            /\ j = Len(ctxLog)
            /\ pc = "done"
            /\ runErr = RunErr("failed to get repository context",
                               Err("not a GitHub repository", RemoteOf(ctxLog[j])))

\* the second root has a remote with a third path segment
C6_Witness ==
    /\ pc = "done"
    /\ Len(ctxLog) = 2
    /\ ctxLog[2].remote.ok
    /\ RemoteOf(ctxLog[2]) = HttpsPrefix \o <<"o","/","n","/","x">>
    /\ runErr.stage = "failed to get repository context"

Dev == <<"d","e","v">>

\* C7: the branch of a context is the checked-out branch when the query
\* gives a name, and "main" when it gives none or fails; the context is
\* derived whenever the remote is a GitHub remote, whatever the branch
\* query does.
C7_BranchOrFallback ==
    \A j \in 1..Len(ctxLog) :
        LET e == ctxLog[j]
        IN /\ (e.remote.ok /\ RemoteOf(e) \in GoodRemotes) =>
                 /\ e.err = NoError
                 /\ e.branch = [ok |-> TRUE, out |-> Dev \o NL] => e.ctx.Branch = Dev
                 /\ e.branch = [ok |-> TRUE, out |-> <<>>] => e.ctx.Branch = Main
                 /\ e.branch = QueryFailed => e.ctx.Branch = Main
           /\ e.err # NoError => ~(e.remote.ok /\ RemoteOf(e) \in GoodRemotes)

\* one context with the branch dev, one after a detached HEAD
C7_Witness ==
    /\ Len(ctxLog) = 2
    /\ ctxLog[1].branch = [ok |-> TRUE, out |-> Dev \o NL]
    /\ ctxLog[1].ctx.Branch = Dev
    /\ ctxLog[2].branch = [ok |-> TRUE, out |-> <<>>]
    /\ ctxLog[2].ctx.Branch = Main
    /\ ctxLog[2].err = NoError

----------------------------------------------------------------------------
(* Properties: orchestration and output *)

\* a line that is a match event with a path
IsMatchWithPath(line) ==
    line.json /\ line.type = "match" /\ line.dataOk /\ line.hasPath /\ ~line.oversize

\* the match events of process i among the lines scanned so far
Delivered(i) == SelectSeq(SubSeq(procs[i].emitted, 1, procs[i].nread), IsMatchWithPath)

RecordsOf(i) ==
    [j \in 1..Len(Delivered(i)) |->
        FormatRecord(ResultOf(ctxLog[i].ctx,
                              MatchOf(Delivered(i)[j], procs[i].root, opts.MaxLineLength)))]

RECURSIVE RecordsFrom(_)
RecordsFrom(i) == IF i > Len(procs) THEN <<>> ELSE RecordsOf(i) \o RecordsFrom(i + 1)

RECURSIVE DeliveredCount(_)
DeliveredCount(i) == IF i = 0 THEN 0 ELSE Len(Delivered(i)) + DeliveredCount(i - 1)

\* C8: when the context of the k-th root cannot be derived, the run has
\* returned that error: searches were started for the roots before k only,
\* the output holds the records of those roots only, and no later root is
\* looked at.
C8_ContextFailureAborts ==
    \A j \in 1..Len(ctxLog) :
        ctxLog[j].err # NoError =>
            /\ pc = "done"
            /\ runErr = RunErr("failed to get repository context", ctxLog[j].err)
            /\ j = Len(ctxLog)
            /\ ctxLog[j].root = uniqueRepos[j]
            /\ Len(procs) = j - 1
            /\ \A i \in 1..Len(procs) : procs[i].root = uniqueRepos[i]
            /\ Len(sink.data) = DeliveredCount(j - 1)

\* the first of two roots has no origin remote
C8_Witness ==
    /\ pc = "done"
    /\ Len(uniqueRepos) = 2
    /\ Len(ctxLog) = 1
    /\ ctxLog[1].remote = QueryFailed
    /\ runErr.stage = "failed to get repository context"
    /\ procs = <<>>

\* C9: the output is the records of the first root's match events in the
\* order the process wrote them, then those of the second root, and so on
\* in the order of the validated roots: nothing is reordered, dropped or
\* merged (the record whose write failed is the only one missing).
C9_OutputInEmissionOrder ==
    procs # <<>> =>
        /\ \A i \in 1..Len(procs) : procs[i].root = uniqueRepos[i]
        /\ sink.data =
              IF procs[Len(procs)].err.kind = "callback error"
              THEN SubSeq(RecordsFrom(1), 1, Len(RecordsFrom(1)) - 1)
              ELSE RecordsFrom(1)

\* two roots with different contexts, one record each, in the order of the roots
C9_Witness ==
    /\ pc = "done"
    /\ runErr = NoRunErr
    /\ Len(procs) = 2
    /\ Len(Delivered(1)) = 1
    /\ Len(Delivered(2)) = 1
    /\ ctxLog[1].ctx.Owner # ctxLog[2].ctx.Owner
    /\ sink.data = RecordsOf(1) \o RecordsOf(2)
    /\ sink.data[1] # sink.data[2]

NoMatchWritten(i) ==
    \A n \in 1..Len(procs[i].emitted) :
        ~IsMatchWithPath(procs[i].emitted[n]) /\ ~procs[i].emitted[n].oversize

\* C10: a search whose process exits with 0 or 1 after its output was read
\* to the end returns no error; a run whose roots all give no match event
\* and exit with 0 or 1 returns no error and leaves the output empty.
C10_NoMatchIsSuccess ==
    /\ \A i \in 1..Len(procs) :
          /\ (procs[i].waited /\ procs[i].code \in {0, 1}) => procs[i].err = NoError
          /\ procs[i].err = Err("ripgrep failed", <<>>) =>
                (procs[i].state = "exited" /\ procs[i].code \notin {0, 1})
    /\ ( /\ pc = "done"
         /\ uniqueRepos # <<>>
         /\ Len(procs) = Len(uniqueRepos)
         /\ \A i \in 1..Len(procs) :
               procs[i].state = "exited" /\ procs[i].code \in {0, 1} /\ NoMatchWritten(i) )
       => (runErr = NoRunErr /\ sink.data = <<>>)

\* two roots searched into an existing file, both processes exit with 1
C10_Witness ==
    /\ pc = "done"
    /\ runErr = NoRunErr
    /\ Len(procs) = 2
    /\ procs[1].code = 1
    /\ procs[2].code = 1
    /\ procs[1].emitted # <<>>
    /\ sink.kind = "file"
    /\ sink.creates = 1
    /\ sink.data = <<>>

\* C11: when the process of a search exits with a status other than 0 and 1,
\* SearchRepo returns the ripgrep error once the stream has been read to its
\* end, also when matches were delivered before; the run has returned that
\* error, no later root is looked at, and the output still holds every
\* record written for that and the earlier roots.
C11_ToolFailureKeepsRecords ==
    \A i \in 1..Len(procs) :
        (procs[i].waited /\ procs[i].code \notin {0, 1}) =>
            /\ procs[i].nread = Len(procs[i].emitted)
            /\ procs[i].err = Err("ripgrep failed", <<>>)
            /\ pc = "done"
            /\ runErr = RunErr("search failed", Err("ripgrep failed", <<>>))
            /\ i = Len(procs)
            /\ Len(ctxLog) = i
            /\ sink.data = RecordsFrom(1)
            /\ Len(sink.data) = DeliveredCount(i)

\* the second of two roots fails with status 2 after one record of each root
C11_Witness ==
    /\ pc = "done"
    /\ Len(procs) = 2
    /\ procs[2].waited
    /\ procs[2].code = 2
    /\ Len(Delivered(1)) = 1
    /\ Len(Delivered(2)) = 1
    /\ Len(sink.data) = 2
    /\ runErr.cause = Err("ripgrep failed", <<>>)

\* C12: when the callback returns an error for a match, that call is the
\* last call of the search: SearchRepo has returned an error that carries
\* the callback's error, the run has returned it, the failed record is not
\* in the output, and no later root is looked at.
C12_CallbackErrorStops ==
    \A i \in 1..Len(procs) :
        \A n \in 1..Len(procs[i].calls) :
            procs[i].calls[n] # WriteOk =>
                /\ n = Len(procs[i].calls)
                /\ procs[i].err = Err("callback error", procs[i].calls[n])
                /\ pc = "done"
                /\ runErr = RunErr("search failed", procs[i].err)
                /\ i = Len(procs)
                /\ Len(ctxLog) = i
                /\ Len(sink.data) = DeliveredCount(i) - 1

\* the first write of the first of two roots fails while a line waits in the pipe
C12_Witness ==
    /\ pc = "done"
    /\ Len(uniqueRepos) = 2
    /\ Len(procs) = 1
    /\ Len(procs[1].calls) = 1
    /\ procs[1].calls[1] \in WriteErrors
    /\ pipe # <<>>
    /\ IsMatchWithPath(Head(pipe))
    /\ sink.data = <<>>

----------------------------------------------------------------------------
(* Properties: resources *)

\* C13: when the run has returned, on whatever path, every search process
\* it started has been waited for and the read end of its output pipe is
\* closed, and the output file it created is closed.
C13_ReleasedOnEveryExit ==
    pc = "done" =>
        /\ \A i \in 1..Len(procs) : procs[i].waited /\ ~procs[i].pipeOpen
        /\ (sink.kind = "file" /\ sink.creates > 0) => ~sink.open

----------------------------------------------------------------------------
(* Properties: records *)

\* the number of characters c in s
Count(s, c) == Cardinality({i \in 1..Len(s) : s[i] = c})

\* C14: every record line has exactly three tabs and exactly one newline,
\* its last character, whatever the match and the context are.
C14_FourFieldsPerRecord ==
    pc = "written" =>
        /\ Count(conv.record, "\t") = 3
        /\ Count(conv.record, "\n") = 1
        /\ conv.record[Len(conv.record)] = "\n"

\* every tab, LF and CR of the text is a space, the other characters are kept
SpacedOut(t) == [i \in 1..Len(t) |-> IF t[i] \in {"\t", "\n", "\r"} THEN " " ELSE t[i]]

\* out is what is left of t when the spaces at its two ends are taken away
IsTrimOf(out, t) ==
    \E lo \in 1..(Len(t) + 1) : \E hi \in 0..Len(t) :
        /\ out = SubSeq(t, lo, hi)
        /\ \A i \in 1..Len(t) : (i < lo \/ i > hi) => t[i] = " "
        /\ out # <<>> => (out[1] # " " /\ out[Len(out)] # " ")

\* the third field of a written record whose other fields have no tab
MatchedField ==
    SubSeq(conv.record,
           Len(conv.result.Repository) + Len(conv.result.LocalPath) + 3,
           Len(conv.record) - Len(conv.result.GitHubURL) - 2)

\* C15: the matched text of a record is the text with each tab, LF and CR
\* replaced by one space and the spaces at both ends removed: it has no
\* tab, LF or CR, no space at either end, the other characters in their
\* order, and it is empty when the text is all whitespace.
C15_SanitizedText ==
    (pc = "written" /\ conv.result.LocalPath = <<"f", ":", "1">>) =>
        /\ IsTrimOf(MatchedField, SpacedOut(conv.result.MatchedLine))
        /\ \A i \in 1..Len(MatchedField) : MatchedField[i] \notin {"\t", "\n", "\r"}
        /\ (\A i \in 1..Len(conv.result.MatchedLine) : IsSpace(conv.result.MatchedLine[i]))
              => MatchedField = <<>>
        /\ conv.record = conv.result.Repository \o <<"\t">> \o conv.result.LocalPath
                \o <<"\t">> \o MatchedField \o <<"\t">> \o conv.result.GitHubURL \o NL

\* a CR LF pair inside the text becomes two spaces
C15_Witness ==
    /\ pc = "written"
    /\ conv.result.MatchedLine = <<"a", "\r", "\n", "b">>
    /\ MatchedField = <<"a", " ", " ", "b">>

\* the decimal numerals of the line numbers of the events
Decimal == (0 :> <<"0">>) @@ (1 :> <<"1">>) @@ (12 :> <<"1", "2">>) @@ (305 :> <<"3", "0", "5">>)

\* the text with tabs, LF and CR as spaces and without the spaces at its ends
SanitizedOf(t) ==
    CHOOSE out \in {SubSeq(SpacedOut(t), lo, hi) : lo \in 1..(Len(t) + 1), hi \in 0..Len(t)} :
        IsTrimOf(out, SpacedOut(t))

\* C16: the record of a match (p, n, t) under a context (o, r, b) is
\* o/r TAB p:n TAB sanitize(t) TAB https://github.com/o/r/blob/b/p#Ln LF,
\* with the path as it is (a space stays a space); the record is this
\* function of the match and the context, so the same match and context
\* give the same bytes.
C16_RecordFields ==
    (pc = "written" /\ conv.ev # <<>>) =>
        LET o == conv.ev.rc.Owner
            r == conv.ev.rc.Repo
            b == conv.ev.rc.Branch
            pth == conv.match.RelPath
            n == Decimal[conv.ev.line.lineNumber]
        IN /\ conv.match.LineNumber = conv.ev.line.lineNumber
           /\ conv.record =
                 o \o <<"/">> \o r \o <<"\t">>
                 \o pth \o <<":">> \o n \o <<"\t">>
                 \o SanitizedOf(conv.match.LineText) \o <<"\t">>
                 \o <<"h","t","t","p","s",":","/","/","g","i","t","h","u","b",".","c","o","m","/">>
                 \o o \o <<"/">> \o r \o <<"/","b","l","o","b","/">> \o b \o <<"/">>
                 \o pth \o <<"#","L">> \o n \o <<"\n">>

\* a file in a directory whose name has a space, at line 305, under p-1/m.x
C16_Witness ==
    /\ pc = "written"
    /\ conv.ev # <<>>
    /\ conv.ev.rc.Owner = <<"p", "-", "1">>
    /\ conv.ev.line.lineNumber = 305
    /\ conv.match.RelPath = <<"d", " ", "e", "/", "g">>
    /\ conv.result.LocalPath = <<"d", " ", "e", "/", "g", ":", "3", "0", "5">>
    /\ conv.result.MatchedLine = <<"p", " ", "q">>

----------------------------------------------------------------------------
(* Properties: line text of a match *)

\* the text of an event with a text field, without its trailing CR and LF
\* characters, as the loop body strips it
Stripped == TrimRightCRLF(conv.ev.line.text)

\* C17: with MaxLineLength m > 0 a stripped text longer than m is emitted as
\* its first m characters followed by "...", m + 3 characters in all; a
\* text of at most m characters is emitted as it is; with m = 0 every text
\* is emitted as it is.
C17_Truncation ==
    (pc # "extract" /\ conv.ev # <<>> /\ conv.ev.line.hasText) =>
        LET m == conv.ev.m
            out == conv.match.LineText
        IN /\ (m > 0 /\ Len(Stripped) > m) =>
                 /\ Len(out) = m + 3
                 /\ \A i \in 1..m : out[i] = Stripped[i]
                 /\ \A i \in (m + 1)..(m + 3) : out[i] = "."
           /\ (m > 0 /\ Len(Stripped) <= m) => out = Stripped
           /\ m = 0 => out = Stripped

\* a text of three characters and its line ending under a maximum of two
C17_Witness ==
    /\ pc = "written"
    /\ conv.ev # <<>>
    /\ conv.ev.m = 2
    /\ conv.ev.line.text = <<"a", "b", "a", "\n">>
    /\ conv.match.LineText = <<"a", "b", ".", ".", ".">>

\* the text without one trailing line ending: CR LF, or LF, or CR
StripOne(t) ==
    IF HasSuffix(t, <<"\r", "\n">>) THEN SubSeq(t, 1, Len(t) - 2)
    ELSE IF HasSuffix(t, <<"\n">>) \/ HasSuffix(t, <<"\r">>) THEN SubSeq(t, 1, Len(t) - 1)
    ELSE t

\* C18: without a maximum length, the line text of a match is the text of
\* the event without exactly one trailing line ending (LF, CR or CR LF):
\* every character before that line ending is kept, and a text without a
\* trailing line ending is unchanged.
C18_OneLineEndingStripped ==
    (pc # "extract" /\ conv.ev # <<>> /\ conv.ev.line.hasText /\ conv.ev.m = 0) =>
        conv.match.LineText = StripOne(conv.ev.line.text)

\* the bytes that the base64 values of the events stand for
DecodedBytes ==
    (<<"Y","Q","=","=">> :> <<"a">>) @@ (<<"Y","Q","o","=">> :> <<"a", "\n">>)
        @@ (<<"Y","Q","0","K">> :> <<"a", "\r", "\n">>) @@ (<<"Y","W","I","=">> :> <<"a", "b">>)
        @@ (<<"Y","W","J","h">> :> <<"a", "b", "a">>) @@ (<<"Y","Q","l","i">> :> <<"a", "\t", "b">>)
        @@ (<<"/","w","=","=">> :> <<"xFF">>) @@ (<<>> :> <<>>)

\* C19: the line text of a match comes from the text field when the event
\* has one, whatever its bytes field holds; else from the base64-decoded
\* bytes field, byte for byte; else it is empty and the event still yields
\* a match.  The trailing line ending is stripped and the text truncated
\* after the decoding, the same way for both fields.
C19_TextThenBytes ==
    (pc # "extract" /\ conv.ev # <<>>) =>
        LET line == conv.ev.line
            out == conv.match.LineText
        IN /\ line.hasText => out = Truncate(TrimRightCRLF(line.text), conv.ev.m)
           /\ (~line.hasText /\ line.hasBytes /\ line.bytes \in DOMAIN DecodedBytes) =>
                 out = Truncate(TrimRightCRLF(DecodedBytes[line.bytes]), conv.ev.m)
           /\ (~line.hasText /\ ~line.hasBytes) =>
                 (out = <<>> /\ YieldsMatch(line) /\ conv.match.RelPath # <<>>)
           /\ pc = "written" => conv.result.MatchedLine = out

\* an event without text whose bytes are aba, under a maximum length of 1
C19_Witness ==
    /\ pc = "written"
    /\ conv.ev # <<>>
    /\ ~conv.ev.line.hasText
    /\ conv.ev.line.bytes = <<"Y","W","J","h">>
    /\ conv.ev.m = 1
    /\ conv.match.LineText = <<"a", ".", ".", ".">>

----------------------------------------------------------------------------
(* Properties: event stream *)

\* the lines of process i that the scanner has returned
ScannedLines(i) == SubSeq(procs[i].emitted, 1, procs[i].nread)

\* C20: a line that is no JSON, an event of another type, a match event
\* whose data cannot be parsed and a match event without a path text make
\* no call and no error, and the next line is read; the calls of a search
\* are as many as the match events with a path among the lines read, and
\* a search that reached the end of the stream has read every line.
C20_SkippedLines ==
    \A i \in 1..Len(procs) :
        /\ Len(procs[i].calls) = Len(SelectSeq(ScannedLines(i), IsMatchWithPath))
        /\ procs[i].nread > 0 =>
              LET last == procs[i].emitted[procs[i].nread]
              IN (~IsMatchWithPath(last) /\ ~last.oversize) =>
                    /\ procs[i].err.kind \notin {"callback error", "error reading ripgrep output"}
                    /\ ~procs[i].waited => (pc = "scan" /\ runErr = NoRunErr)
        /\ procs[i].waited => procs[i].nread = Len(procs[i].emitted)

\* a match event without a path text, then a match event: one call, no error
C20_Witness ==
    /\ pc = "done"
    /\ runErr = NoRunErr
    /\ Len(procs) = 1
    /\ procs[1].nread = 2
    /\ procs[1].emitted[1].type = "match"
    /\ procs[1].emitted[1].dataOk
    /\ ~procs[1].emitted[1].hasPath
    /\ IsMatchWithPath(procs[1].emitted[2])
    /\ Len(procs[1].calls) = 1
    /\ Len(sink.data) = 1

\* the largest number of bytes of a line, newline included: 10 MiB
Ceiling == 10485760

\* C21: a line over the ceiling of 10 MiB is the last line read: SearchRepo
\* returns the read error, the run has returned it, and the matches read
\* before it were delivered and stay written.  A line of at most 10 MiB,
\* also one over 64 KiB, is processed as every other line: the read error
\* comes from a line over the ceiling only, and the calls are the match
\* events with a path among the lines of at most 10 MiB that were read.
C21_OversizedLine ==
    \A i \in 1..Len(procs) :
        /\ \A n \in 1..procs[i].nread :
              procs[i].emitted[n].nbytes > Ceiling =>
                  /\ n = procs[i].nread
                  /\ procs[i].err = Err("error reading ripgrep output", <<>>)
                  /\ pc = "done"
                  /\ runErr = RunErr("search failed", procs[i].err)
                  /\ \A k \in 1..Len(procs[i].calls) : procs[i].calls[k] = WriteOk
                  /\ Len(sink.data) = Len(procs[i].calls)
        /\ procs[i].err.kind = "error reading ripgrep output" =>
              (procs[i].nread > 0 /\ procs[i].emitted[procs[i].nread].nbytes > Ceiling)
        /\ Len(procs[i].calls) =
              Len(SelectSeq(ScannedLines(i),
                            LAMBDA l : l.json /\ l.type = "match" /\ l.dataOk /\ l.hasPath
                                         /\ l.nbytes <= Ceiling))

\* a match event of 10 MiB is delivered, the line after it is over the ceiling
C21_Witness ==
    /\ pc = "done"
    /\ Len(procs) = 1
    /\ procs[1].nread = 2
    /\ procs[1].emitted[1].nbytes = Ceiling
    /\ procs[1].emitted[2].nbytes > Ceiling
    /\ Len(procs[1].calls) = 1
    /\ Len(sink.data) = 1
    /\ runErr.cause = Err("error reading ripgrep output", <<>>)

----------------------------------------------------------------------------
(* Properties: streaming *)

\* the calls of the callback that have returned without error
RECURSIVE CallsOk(_)
CallsOk(i) ==
    IF i = 0 THEN 0
    ELSE Len(SelectSeq(procs[i].calls, LAMBDA w : w = WriteOk)) + CallsOk(i - 1)

RECURSIVE LinesScanned(_)
LinesScanned(i) == IF i = 0 THEN 0 ELSE procs[i].nread + LinesScanned(i - 1)

\* while the roots are searched, a step leaves the output as it is or
\* appends one record, in the step that reads the line of its match
WholeRecordStep ==
    pc \in {"context", "search", "scan"} =>
        \/ sink.data' = sink.data
        \/ /\ Len(sink.data') = Len(sink.data) + 1
           /\ SubSeq(sink.data', 1, Len(sink.data)) = sink.data
           /\ LinesScanned(Len(procs))' = LinesScanned(Len(procs)) + 1
           /\ CallsOk(Len(procs))' = CallsOk(Len(procs)) + 1

----------------------------------------------------------------------------
(* Properties: one root at a time *)

\* C23: the roots are processed one after the other: when the context of a
\* root is derived or its search started, the process of every root before
\* it has exited, its stream was read to the end and it was waited for, so
\* at most one process is running; the roots returned by the resolver are
\* the distinct canonical paths of the arguments, and a run that returns
\* no error has searched each of them once, in their order.
C23_OneRootAtATime ==
    /\ Len(ctxLog) <= Len(procs) + 1
    /\ \A j \in 1..Len(ctxLog) : \A i \in 1..(j - 1) :
          /\ i <= Len(procs)
          /\ procs[i].state = "exited"
          /\ procs[i].waited
          /\ procs[i].nread = Len(procs[i].emitted)
    /\ \A i \in 1..(Len(procs) - 1) : procs[i].state = "exited" /\ procs[i].waited
    /\ Cardinality({i \in 1..Len(procs) : procs[i].state = "running"}) <= 1
    /\ pc = "resolved" =>
          /\ {uniqueRepos[i] : i \in 1..Len(uniqueRepos)} = CanonSet
          /\ Cardinality(CanonSet) = Len(uniqueRepos)
    /\ (pc = "done" /\ runErr = NoRunErr /\ uniqueRepos # <<>>) =>
          /\ Len(procs) = Len(uniqueRepos)
          /\ \A i \in 1..Len(procs) : procs[i].root = uniqueRepos[i] /\ procs[i].waited
          /\ \A i, j \in 1..Len(procs) : procs[i].root = procs[j].root => i = j

\* the second root is being searched while its process runs, after the
\* process of the first root has written two lines and exited
C23_Witness ==
    /\ pc = "scan"
    /\ Len(procs) = 2
    /\ procs[1].state = "exited"
    /\ Len(procs[1].emitted) = 2
    /\ procs[2].state = "running"
    /\ Len(uniqueRepos) = 2

----------------------------------------------------------------------------
(* Properties: command line *)

\* the arguments between --json and the pattern
FlagArgs == SubSeq(call.args, 2, Len(call.args) - 2)

\* C24: in a run whose command line does not give the encoding flag, the
\* arguments of rg have no --encoding.
C24_NoEncodingByDefault ==
    (pc = "built" /\ call.flags # <<>> /\ ~call.flags.encodingGiven) =>
        \A n \in 1..Len(FlagArgs) : FlagArgs[n] # "--encoding"

\* how often the argument a stands among the flag arguments
FlagCount(a) == Cardinality({n \in 1..Len(FlagArgs) : FlagArgs[n] = a})

Once(b) == IF b THEN 1 ELSE 0

\* C25: the arguments of rg are --json first, the pattern and the root
\* last, and between them -i, --hidden, -F and --encoding with its value
\* once each exactly when the option is set, one --glob with its pattern
\* for each glob pattern, in the order of the options, and nothing else.
C25_ArgumentList ==
    pc = "built" =>
        LET o == call.opts
        IN /\ call.args[1] = "--json"
           /\ call.args[Len(call.args) - 1] = call.pattern
           /\ call.args[Len(call.args)] = call.root
           /\ FlagCount("-i") = Once(o.IgnoreCase)
           /\ FlagCount("--hidden") = Once(o.Hidden)
           /\ FlagCount("-F") = Once(o.FixedStrings)
           /\ FlagCount("--encoding") = Once(o.Encoding # "")
           /\ \A n \in 1..Len(FlagArgs) :
                 FlagArgs[n] = "--encoding" =>
                     (n < Len(FlagArgs) /\ FlagArgs[n + 1] = o.Encoding)
           /\ FlagCount("--glob") = Len(o.Globs)
           /\ \A n \in 1..Len(FlagArgs) :
                 FlagArgs[n] = "--glob" =>
                     (n < Len(FlagArgs) /\ FlagArgs[n + 1] \in GlobPatterns)
           /\ SelectSeq(FlagArgs, LAMBDA a : a \in GlobPatterns) = o.Globs
           /\ Len(FlagArgs) = Once(o.IgnoreCase) + Once(o.Hidden) + Once(o.FixedStrings)
                                 + 2 * Once(o.Encoding # "") + 2 * Len(o.Globs)

\* every option set, two different glob patterns, the pattern -i
C25_Witness ==
    /\ pc = "built"
    /\ call.flags # <<>>
    /\ call.args = <<"--json", "-i", "--glob", "!*_test.go", "--glob", "*.go", "--hidden",
                     "-F", "--encoding", "shift_jis", "-i", "/w/a">>

----------------------------------------------------------------------------
(* Properties: canonical paths *)

\* C26: ValidateRepoRoot accepts a path exactly when the directory it
\* denotes, symlinks and relative segments resolved, is the top-level
\* directory of a work tree: every spelling of a root is accepted, also one
\* through a symlink, and subdirectories and other directories are rejected.
C26_AcceptedIffRoot ==
    pc = "validated" => (vresult = NoError <=> IsRepoRoot(vpath))

----------------------------------------------------------------------------
(* One match event on either platform: package filepath with the separator *)
(* of the build, the slash or the backslash                                 *)

BSL == <<"\\">>

Separators == {SL, BSL}

\* strings.ReplaceAll(p, old, new) for one-character strings
ReplaceSep(p, old, new) ==
    [i \in 1..Len(p) |-> IF <<p[i]>> = old THEN new[1] ELSE p[i]]

\* filepath.ToSlash on a build whose separator is sep
ToSlashOn(sep, p) == IF sep = SL THEN p ELSE ReplaceSep(p, sep, SL)

\* filepath.FromSlash on a build whose separator is sep
FromSlashOn(sep, p) == IF sep = SL THEN p ELSE ReplaceSep(p, SL, sep)

\* filepath.VolumeName: a drive letter and a colon where the separator is
\* the backslash, nothing elsewhere
VolumeName(sep, p) ==
    IF sep = BSL /\ Len(p) >= 2 /\ p[2] = ":" THEN SubSeq(p, 1, 2) ELSE <<>>

\* filepath.Rel on a build whose separator is sep: the volumes must be the
\* same, and the rest is computed element by element with the separator
RelOn(sep, basepath, targpath) ==
    LET baseVol == VolumeName(sep, basepath)
        targVol == VolumeName(sep, targpath)
        base == ToSlashOn(sep, SubSeq(basepath, Len(baseVol) + 1, Len(basepath)))
        targ == ToSlashOn(sep, SubSeq(targpath, Len(targVol) + 1, Len(targpath)))
        rel == Rel(base, targ)
    IN IF baseVol # targVol \/ ~rel.ok THEN [path |-> <<>>, ok |-> FALSE]
       ELSE [path |-> FromSlashOn(sep, rel.path), ok |-> TRUE]

\* the Match the loop body builds, on a build whose separator is sep
MatchOfOn(sep, line, repoRoot, maxLineLength) ==
    LET rel == RelOn(sep, repoRoot, line.path)
    IN [RelPath |-> IF rel.ok THEN rel.path ELSE line.path,
        LineNumber |-> line.lineNumber,
        LineText |-> Truncate(TrimRightCRLF(LineTextOf(line)), maxLineLength)]

\* BuildGitHubFileURL on a build whose separator is sep
BuildGitHubFileURLOn(sep, owner, repo, branch, relPath, lineNum) ==
    BlobPrefix \o owner \o SL \o repo \o <<"/","b","l","o","b","/">> \o branch
        \o SL \o ToSlashOn(sep, relPath) \o <<"#","L">> \o Itoa(lineNum)

\* the SearchResult the callback of run builds, on a build whose separator is sep
ResultOfOn(sep, rc, match) ==
    [Repository |-> rc.Owner \o SL \o rc.Repo,
     LocalPath |-> match.RelPath \o <<":">> \o Itoa(match.LineNumber),
     MatchedLine |-> match.LineText,
     GitHubURL |-> BuildGitHubFileURLOn(sep, rc.Owner, rc.Repo, rc.Branch,
                                        match.RelPath, match.LineNumber)]

\* the repository root of each build: /w/a and C:\w\a
PlatformRoot(sep) == IF sep = SL THEN ConvRoot ELSE <<"C",":","\\","w","\\","a">>

\* paths of match events under a root: a file of the root, a file one and
\* two directories down; and paths filepath.Rel fails on: a relative path
\* (against the absolute root) and, with volumes, a file of another volume
PlatformPaths(sep) ==
    { PlatformRoot(sep) \o sep \o <<"f">>,
      PlatformRoot(sep) \o sep \o <<"d">> \o sep \o <<"g">>,
      PlatformRoot(sep) \o sep \o <<"d">> \o sep \o <<"e">> \o sep \o <<"h">>,
      <<"f">> }
    \cup (IF sep = BSL THEN {<<"D",":","\\","w","\\","a","\\","f">>} ELSE {})

PlatformInputsOf(sep) ==
    {[sep |-> sep,
      line |-> EventLine(TRUE, "match", TRUE, TRUE, q, n, TRUE, <<"p","\n">>, FALSE),
      root |-> PlatformRoot(sep), m |-> 0, rc |-> c] :
        q \in PlatformPaths(sep), n \in LineNumbers \ {0}, c \in ConvCtxs}

PlatformInputs == UNION {PlatformInputsOf(sep) : sep \in Separators}

InitPlatform ==
    /\ pc = "extract"
    /\ \E e \in PlatformInputs : conv = [NoConv EXCEPT !.ev = e]
    /\ vpath = <<>>
    /\ vresult = Pending
    /\ urlParts = [owner |-> <<>>, name |-> <<>>]
    /\ parsed = <<>>
    /\ call = NoCall
    /\ IdleRun

\* the loop body of SearchRepo builds the Match of the event
ExtractMatchOn ==
    /\ pc = "extract"
    /\ conv' = [conv EXCEPT !.match = MatchOfOn(conv.ev.sep, conv.ev.line, conv.ev.root, conv.ev.m)]
    /\ pc' = "convert"
    /\ UNCHANGED <<vpath, vresult, urlParts, parsed, call>>
    /\ UNCHANGED runVars

\* the callback of run builds the SearchResult of the Match
BuildResultOn ==
    /\ pc = "convert"
    /\ conv' = [conv EXCEPT !.result = ResultOfOn(conv.ev.sep, conv.ev.rc, conv.match)]
    /\ pc' = "format"
    /\ UNCHANGED <<vpath, vresult, urlParts, parsed, call>>
    /\ UNCHANGED runVars

NextPlatform ==
    \/ ExtractMatchOn
    \/ BuildResultOn
    \/ WriteRecord

SpecPlatform == InitPlatform /\ [][NextPlatform]_vars

\* the path inside a blob URL: what follows the branch and precedes #L
UrlPath(url, rc) ==
    LET head == BlobPrefix \o rc.Owner \o SL \o rc.Repo \o <<"/","b","l","o","b","/">>
                    \o rc.Branch \o SL
        hash == CHOOSE i \in 1..Len(url) : url[i] = "#" /\ \A j \in (i + 1)..Len(url) : url[j] # "#"
    IN SubSeq(url, Len(head) + 1, hash - 1)

\* the path inside a local locator: what precedes the last colon
LocatorPath(loc) ==
    LET colon == CHOOSE i \in 1..Len(loc) : loc[i] = ":" /\ \A j \in (i + 1)..Len(loc) : loc[j] # ":"
    IN SubSeq(loc, 1, colon - 1)

\* C27: on every platform the path of a match is relative to the root and
\* has slashes for separators, so the path of the local locator is the path
\* inside the URL; when filepath.Rel fails the path of the event is used as
\* it is and a record is written all the same.
C27_SlashPath ==
    pc = "written" =>
        LET e == conv.ev
            rel == RelOn(e.sep, e.root, e.line.path)
        IN /\ rel.ok => /\ conv.match.RelPath = ToSlashOn(e.sep, rel.path)
                        /\ \A i \in 1..Len(conv.match.RelPath) : conv.match.RelPath[i] # "\\"
                        /\ LocatorPath(conv.result.LocalPath) = UrlPath(conv.result.GitHubURL, e.rc)
           /\ ~rel.ok => conv.match.RelPath = e.line.path
           /\ conv.record # <<>>

----------------------------------------------------------------------------
(* Properties: line numbers *)

\* C28: the record of a match event carries a line number of at least 1: an
\* event without a line number, or with one below 1, gives no record, so no
\* locator ends in :0 and no URL in #L0.
C28_LineNumberAtLeastOne ==
    (pc = "written" /\ conv.ev # <<>> /\ YieldsMatch(conv.ev.line)) =>
        /\ conv.match.LineNumber >= 1
        /\ ~HasSuffix(conv.result.LocalPath, <<":","0">>)
        /\ ~HasSuffix(conv.record, <<"#","L","0","\n">>)

----------------------------------------------------------------------------
(* One match event whose text has multi-byte characters: a Go string is a *)
(* sequence of bytes, and a byte over 7F is written as its two hex digits  *)

\* the UTF-8 encodings of a (61), e-acute (C3 A9) and hiragana a (E3 81 82)
Utf8Chars == { <<"a">>, <<"c3","a9">>, <<"e3","81","82">> }

MaxChars == 3

RECURSIVE Flatten(_)
Flatten(ss) == IF ss = <<>> THEN <<>> ELSE Head(ss) \o Flatten(Tail(ss))

\* the texts of lines.text: up to MaxChars characters and a line feed
Utf8Texts == {Flatten(cs) \o NL : cs \in SeqsUpTo(Utf8Chars, MaxChars)}

Utf8MaxLineLengths == 0..4

Utf8Inputs ==
    {[line |-> TextEvent(t), root |-> ConvRoot, m |-> m,
      rc |-> [Root |-> ConvRoot, Owner |-> <<"o">>, Repo |-> <<"n">>, Branch |-> Main]] :
        t \in Utf8Texts, m \in Utf8MaxLineLengths}

InitUtf8 ==
    /\ pc = "extract"
    /\ \E e \in Utf8Inputs : conv = [NoConv EXCEPT !.ev = e]
    /\ vpath = <<>>
    /\ vresult = Pending
    /\ urlParts = [owner |-> <<>>, name |-> <<>>]
    /\ parsed = <<>>
    /\ call = NoCall
    /\ IdleRun

SpecUtf8 == InitUtf8 /\ [][NextFormat]_vars

----------------------------------------------------------------------------
(* Properties: characters *)

\* the number of bytes the lead byte b announces
Utf8Width(b) == IF b = "c3" THEN 2 ELSE IF b = "e3" THEN 3 ELSE 1

IsContinuation(b) == b \in {"a9", "81", "82"}

\* the characters of a byte string, as a range loop over a Go string sees
\* them: a whole encoding is one character, and a byte that starts no whole
\* encoding is one (invalid) character of its own
RECURSIVE Runes(_)
Runes(bs) ==
    IF bs = <<>> THEN <<>>
    ELSE LET w == Utf8Width(Head(bs))
             whole == /\ ~IsContinuation(Head(bs))
                      /\ Len(bs) >= w
                      /\ \A i \in 2..w : IsContinuation(bs[i])
         IN IF whole THEN <<SubSeq(bs, 1, w)>> \o Runes(SubSeq(bs, w + 1, Len(bs)))
            ELSE <<<<Head(bs)>>>> \o Runes(Tail(bs))

\* every character of the byte string is a whole encoding
WellFormed(bs) == \A i \in 1..Len(Runes(bs)) : Runes(bs)[i] \in Utf8Chars \cup {<<".">>}

\* C29: MaxLineLength counts characters: a stripped text of more characters
\* is cut to its first MaxLineLength whole characters and "..." is appended,
\* MaxLineLength + 3 characters in all and no character cut in two; a text
\* of at most MaxLineLength characters is not modified.
C29_CharactersCounted ==
    (pc = "written" /\ conv.ev # <<>>) =>
        LET stripped == TrimRightCRLF(conv.ev.line.text)
            chars == Runes(stripped)
            m == conv.ev.m
            out == conv.match.LineText
        IN IF m > 0 /\ Len(chars) > m
           THEN /\ out = Flatten(SubSeq(chars, 1, m)) \o Ellipsis
                /\ Len(Runes(out)) = m + 3
                /\ WellFormed(out)
           ELSE out = stripped

----------------------------------------------------------------------------
(* One search whose output file lies inside the searched root: run has     *)
(* created /w/a/out with os.Create and started rg on /w/a; rg reads every  *)
(* file under the root, each once, in any order, while run writes records  *)

MaxFeedback == 2

OutName == <<"o","u","t">>

\* the pattern is the letter p
MatchesPattern(text) == \E i \in 1..Len(text) : text[i] = "p"

\* the files of the work tree and their lines: f and g, one line each
OwnFiles == { <<"f">>, <<"g">> }

OwnLine(file) == IF file = <<"f">> THEN <<"p","q","\n">> ELSE <<"x","p","\n">>

\* the match event rg writes for line lineNumber of a file under the root
FileEvent(root, file, lineNumber, text) ==
    EventLine(TRUE, "match", TRUE, TRUE, root \o SL \o file, lineNumber, TRUE, text, FALSE)

\* the state of the search process: the files it has not read, the lines of
\* the output file it has read, whether it has reached the end of that file
RgProc(root) ==
    NewProc(root) @@ [unread |-> OwnFiles, outPos |-> 0, outDone |-> FALSE]

\* run after os.Create of the output file and cmd.Start
InitFeedback ==
    /\ pc = "scan"
    /\ paths = <<>>
    /\ opts \in RunOptions
    /\ sink = [kind |-> "file", exists |-> TRUE, open |-> TRUE, data |-> <<>>, creates |-> 1]
    /\ idx = 0
    /\ seen = {}
    /\ unique = <<>>
    /\ gitCalls = <<>>
    /\ uniqueRepos = <<ConvRoot>>
    /\ runErr = NoRunErr
    /\ repoIdx = 1
    /\ repoCtx = [Root |-> ConvRoot, Owner |-> <<"o">>, Repo |-> <<"n">>, Branch |-> <<"d","e","v">>]
    /\ ctxLog = <<>>
    /\ procs = <<RgProc(ConvRoot)>>
    /\ pipe = <<>>
    /\ IdleAlone

\* rg reads a file of the work tree and writes the event of its matching line
RgReadFile ==
    /\ pc = "scan"
    /\ procs[Len(procs)].state = "running"
    /\ Len(pipe) < MaxPipe
    /\ \E file \in procs[Len(procs)].unread :
          LET line == FileEvent(procs[Len(procs)].root, file, 1, OwnLine(file))
          IN /\ pipe' = Append(pipe, line)
             /\ procs' = [procs EXCEPT ![Len(procs)].emitted = Append(@, line),
                                       ![Len(procs)].unread = @ \ {file}]
    /\ UNCHANGED <<pc, paths, opts, sink, idx, seen, unique, gitCalls, uniqueRepos, runErr,
                   repoIdx, repoCtx, ctxLog, vpath, vresult, urlParts, parsed, conv, call>>

\* rg reads the next line of the output file, a record run has written and
\* flushed, and writes a match event for it when it has the pattern
RgReadOutput ==
    /\ pc = "scan"
    /\ procs[Len(procs)].state = "running"
    /\ ~procs[Len(procs)].outDone
    /\ procs[Len(procs)].outPos < Len(sink.data)
    /\ procs[Len(procs)].outPos < MaxFeedback
    /\ Len(pipe) < MaxPipe
    /\ LET n == procs[Len(procs)].outPos + 1
           line == FileEvent(procs[Len(procs)].root, OutName, n, sink.data[n])
       IN IF MatchesPattern(sink.data[n])
          THEN /\ pipe' = Append(pipe, line)
               /\ procs' = [procs EXCEPT ![Len(procs)].emitted = Append(@, line),
                                         ![Len(procs)].outPos = n]
          ELSE /\ procs' = [procs EXCEPT ![Len(procs)].outPos = n]
               /\ UNCHANGED pipe
    /\ UNCHANGED <<pc, paths, opts, sink, idx, seen, unique, gitCalls, uniqueRepos, runErr,
                   repoIdx, repoCtx, ctxLog, vpath, vresult, urlParts, parsed, conv, call>>

\* rg reaches the end of the output file as it is at that moment
RgOutputEOF ==
    /\ pc = "scan"
    /\ procs[Len(procs)].state = "running"
    /\ ~procs[Len(procs)].outDone
    /\ procs[Len(procs)].outPos = Len(sink.data)
    /\ procs' = [procs EXCEPT ![Len(procs)].outDone = TRUE]
    /\ UNCHANGED <<pc, paths, opts, sink, idx, seen, unique, gitCalls, uniqueRepos, runErr,
                   repoIdx, repoCtx, ctxLog, pipe, vpath, vresult, urlParts, parsed, conv, call>>

\* rg exits when it has read every file
RgExitAll ==
    /\ procs[Len(procs)].unread = {}
    /\ procs[Len(procs)].outDone
    /\ RgExit

NextFeedback ==
    \/ RgReadFile
    \/ RgReadOutput
    \/ RgOutputEOF
    \/ RgExitAll
    \/ ScanLine
    \/ ScanEOF

SpecFeedback == InitFeedback /\ [][NextFeedback]_vars

----------------------------------------------------------------------------
(* Properties: the output file inside the root *)

\* the record of the matching line of a file of the work tree
OwnRecord(file) ==
    FormatRecord(ResultOf(repoCtx, MatchOf(FileEvent(ConvRoot, file, 1, OwnLine(file)),
                                           ConvRoot, opts.MaxLineLength)))

\* C30: with the output file inside the searched root, no record is the
\* record of a line of the output file itself: every record written is the
\* record of a matching line of a file of the work tree, and a run that
\* returns nil has written exactly one record for each of them.
C30_NoFeedback ==
    /\ \A i \in 1..Len(sink.data) : \E file \in OwnFiles : sink.data[i] = OwnRecord(file)
    /\ (pc = "done" /\ runErr = NoRunErr) =>
           /\ Len(sink.data) = Cardinality(OwnFiles)
           /\ \A file \in OwnFiles : \E i \in 1..Len(sink.data) : sink.data[i] = OwnRecord(file)

====
